---------------------------- MODULE Spec2Model ----------------------------
(***************************************************************************)
(* A model of the core of the backtest engine:                             *)
(*   - OrderManager  (src/Core/OrderManager.{h,cpp}): one strategy's cash, *)
(*     position and pending LIMIT orders;                                  *)
(*   - BarAggregator (src/Core/BarAggregator.h): ticks to OHLCV bars;      *)
(*   - StatsCollector (src/Core/StatsCollector.{h,cpp}): one strategy's    *)
(*     series of valuations and returns and its registry of statistics;    *)
(*   - BacktestEngine (src/Core/BacktestEngine.{h,cpp}): the strategies'   *)
(*     contexts, runAll and its worker threads.                            *)
(*                                                                         *)
(* Prices, volumes and cash are C++ doubles in the source.  They are       *)
(* modelled by integers: every value used here is an integer far below     *)
(* 2^53, on which double arithmetic (+, -, *, comparisons) is exact.       *)
(* Order::timestamp is never read by the OrderManager and is left out of   *)
(* the order records; the field id is instrumentation (the index of the    *)
(* order among the submitted ones), not a field of the source.             *)
(***************************************************************************)
EXTENDS Integers, Sequences, FiniteSets, TLC

\* ------------------------------------------------------------------ bounds
\* Number of submit calls in one behaviour of the ledger.
MaxOrders == 2
\* Number of update calls in one behaviour of the aggregator.
MaxEvents == 3
\* Number of recordPnL calls in one behaviour of the statistics collector.
MaxRecords == 3
\* Length of the longest trade series and quote series given to the engine.
MaxSeries == 2
\* Events in each series of the specification with fair scheduling.
MaxFairSeries == 1
\* Calls of runAll on one engine
MaxRuns == 2

\* ------------------------------------------------------- input alphabets
Prices == {100, 101, 110}
Volumes == {1, 2}
InitialCashes == {100, 10000}
Sides == {"BUY", "SELL"}
OrderTypes == {"MARKET", "LIMIT"}

\* An order as a strategy builds it (struct Order, without id and timestamp).
OrderInputs == [side : Sides, type : OrderTypes, volume : Volumes, price : Prices]
\* struct Tick (timestamp and volume are not read by the OrderManager).
Ticks == [price : Prices]
\* struct QuoteTick (bid and ask are independent inputs: the OrderManager
\* does not require bid < ask).
QuoteTicks == [bid : Prices, ask : Prices]

\* The aggregator's inputs: window sizes (60 is BarStrategy's default) and
\* the ticks passed to update.
WindowSizes == {60, 60000}
Timestamps == {1000, 59000, 61000}
BarPrices == {9, 10, 12}
BarTicks == [timestamp : Timestamps, price : BarPrices, volume : Volumes]

\* The statistics collector's inputs: the values passed to recordPnL, the
\* names and functions passed to addStat by a user of the class, and the six
\* names registerUserStats registers.  A StatsFunction is an opaque closure:
\* it is identified by where it was built (origin) and which one it is (id).
PnLValues == {-100, 0, 110}
UserStatNames == {"X", "Sharpe"}
UserFunctions == [origin : {"user"}, id : {"f", "g"}]
StandardStatNames == {"MeanReturn", "TotalReturn", "MaxDrawdown", "AnnualizedVolatility",
                      "Sharpe", "Sortino"}

\* The engine's inputs.  A strategy is trade-based (a Strategy that is not a
\* QuoteStrategy) or quote-based (a QuoteStrategy); the i-th strategy added is
\* given the i-th name.  The series handed to setTickData are the first n
\* events of a fixed trade feed and of a fixed quote feed (bid + ask is even
\* in every quote, so that the mid price is an integer).
StrategyKinds == {"trade", "quote"}
StrategyNames == <<"First", "Second">>
\* The initialCash arguments of addStrategy are doubles that need not be whole:
\* the record stands for units + halves / 2.
EngineCashes == {[units |-> 10000, halves |-> 0], [units |-> 100, halves |-> 1]}
TradeFeed(n) == [i \in 1..n |-> [price |-> IF i % 2 = 1 THEN 100 ELSE 110]]
QuoteFeed(n) ==
    [i \in 1..n |-> IF i % 3 = 1 THEN [bid |-> 100, ask |-> 100]
                    ELSE IF i % 3 = 2 THEN [bid |-> 100, ask |-> 102]
                    ELSE [bid |-> 98, ask |-> 100]]

VARIABLES
    \* OrderManager fields
    cash, position, pendingOrders,
    \* instrumentation of the OrderManager
    initialCash,   \* the constructor argument
    orders,        \* every order passed to submit, in call order (index = id)
    execCount,     \* execCount[id] = number of execute calls on order id
    pnl,           \* what the last call returned: Some(number) after getPnL, else nullopt
    lastOp,        \* name of the last operation called on the ledger
    \* BarAggregator fields
    windowSize, currentWindow, currentBar,
    \* instrumentation of the BarAggregator
    completed,     \* what the last update / flush call returned (a Bar or nullopt)
    run,           \* the ticks of the current run: the longest suffix of the
                   \* ticks passed to update that lie in one window
    nUpdates,      \* number of update calls so far
    aggOp,         \* name of the last operation called on the aggregator
    prevAggOp,     \* name of the operation called before that one
    \* StatsCollector fields
    initialPnL, pnlSeries, returnsSeries, statsFunction,
    \* instrumentation of the StatsCollector
    firstFunction, \* firstFunction[name] = the function of the first addStat call
                   \* made with that name
    userAdded,     \* TRUE once addStat was called from outside registerUserStats
    results,       \* Some(map) returned by the last call if it was computeStats
    calls,         \* calls[name] = number of invocations of statsFunction[name]
                   \* made by the last call
    statsOp,       \* name of the last operation called on the collector
    \* BacktestEngine fields
    data, quoteData,
    strategies,    \* the StrategyContext objects, in the order they were added
    \* the threads of the process
    threads,       \* threads[k]: the worker of strategies[k] (StrategyContext::worker)
    mainPc,        \* where the main thread is, and the index of its loop in runAll
    verbose,       \* the argument of the runAll call
    globalPrintMutex,  \* Some(thread) while a thread holds it (0 is the main thread)
    terminated,    \* TRUE once std::terminate has ended the process
    \* a BarStrategy object
    barStrategy,   \* its aggregator, and the calls made on it and by it
    \* the standard statistics of a collector
    statsEnv       \* what the closures of registerUserStats captured, and what
                   \* they read and returned in the last computeStats call

\* An optional value (std::optional, or the result of a call that may return
\* nothing) is a sequence of length at most one.
nullopt == <<>>
Some(v) == <<v>>

omVars == <<cash, position, pendingOrders, initialCash, orders, execCount, pnl, lastOp>>
aggVars == <<windowSize, currentWindow, currentBar, completed, run, nUpdates, aggOp,
             prevAggOp>>
statsVars == <<initialPnL, pnlSeries, returnsSeries, statsFunction, firstFunction,
               userAdded, results, calls, statsOp>>
engineVars == <<data, quoteData, strategies, threads, mainPc, verbose, globalPrintMutex,
                terminated>>
barVars == <<barStrategy>>
metricVars == <<statsEnv>>
vars == <<omVars, aggVars, statsVars, engineVars, barVars, metricVars>>

\* ------------------------------------------------------------ OrderManager
\* The OrderManager object: the fields execute() writes, as one record, so
\* that the loops of handleTick can thread it through their iterations.
OM(c, p, e) == [cash |-> c, position |-> p, execCount |-> e]

\* execute with the SELL branch subtracting the proceeds instead of adding them.
execute_SellPays(om, order) ==
    IF order.side = "BUY"
    THEN [om EXCEPT !.position = @ + order.volume,
                    !.cash = @ - order.volume * order.price,
                    !.execCount[order.id] = @ + 1]
    ELSE [om EXCEPT !.position = @ - order.volume,
                    !.cash = @ - order.volume * order.price,
                    !.execCount[order.id] = @ + 1]

\* execute refusing a BUY the cash does not cover and a SELL the position
\* does not cover.
execute_ChecksFunds(om, order) ==
    IF order.side = "BUY"
    THEN IF om.cash < order.volume * order.price
         THEN [om EXCEPT !.execCount[order.id] = @ + 1]
         ELSE [om EXCEPT !.position = @ + order.volume,
                         !.cash = @ - order.volume * order.price,
                         !.execCount[order.id] = @ + 1]
    ELSE IF om.position < order.volume
         THEN [om EXCEPT !.execCount[order.id] = @ + 1]
         ELSE [om EXCEPT !.position = @ - order.volume,
                         !.cash = @ + order.volume * order.price,
                         !.execCount[order.id] = @ + 1]

\* OrderManager::execute
execute(om, order) ==
    IF order.side = "BUY"
    THEN [om EXCEPT !.position = @ + order.volume,
                    !.cash = @ - order.volume * order.price,
                    !.execCount[order.id] = @ + 1]
    ELSE [om EXCEPT !.position = @ - order.volume,
                    !.cash = @ + order.volume * order.price,
                    !.execCount[order.id] = @ + 1]

\* tickExecutes with strict comparisons.
tickExecutes_Strict(order, tick) ==
    \/ order.side = "BUY" /\ tick.price < order.price
    \/ order.side = "SELL" /\ tick.price > order.price

\* The two conditions of handleTick(const Tick&), in the order of the if / else if.
tickExecutes(order, tick) ==
    \/ order.side = "BUY" /\ tick.price <= order.price
    \/ order.side = "SELL" /\ tick.price >= order.price

\* quoteExecutes with bid and ask exchanged.
quoteExecutes_WrongSide(order, quote) ==
    \/ order.side = "BUY" /\ order.price >= quote.bid
    \/ order.side = "SELL" /\ order.price <= quote.ask

\* The two conditions of handleTick(const QuoteTick&).
quoteExecutes(order, quote) ==
    \/ order.side = "BUY" /\ order.price >= quote.ask
    \/ order.side = "SELL" /\ order.price <= quote.bid

\* loopBody putting a kept order at the front of stillPending.
loopBody_Prepends(acc, order, executed) ==
    IF executed
    THEN [om |-> execute(acc.om, order), stillPending |-> acc.stillPending]
    ELSE [om |-> acc.om, stillPending |-> <<order>> \o acc.stillPending]

\* loopBody without the test of executed: every order is kept pending.
loopBody_KeepsExecuted(acc, order, executed) ==
    IF executed
    THEN [om |-> execute(acc.om, order), stillPending |-> Append(acc.stillPending, order)]
    ELSE [om |-> acc.om, stillPending |-> Append(acc.stillPending, order)]

\* One iteration of either loop: execute the order, or keep it in stillPending.
loopBody(acc, order, executed) ==
    IF executed
    THEN [om |-> execute(acc.om, order), stillPending |-> acc.stillPending]
    ELSE [om |-> acc.om, stillPending |-> Append(acc.stillPending, order)]

\* The loop of handleTick(const Tick&) executing an order at the tick's price.
RECURSIVE tickLoop_AtTickPrice(_, _, _)
tickLoop_AtTickPrice(acc, rest, tick) ==
    IF rest = <<>> THEN acc
    ELSE LET order == Head(rest)
             next == IF tickExecutes(order, tick)
                     THEN [om |-> execute(acc.om, [order EXCEPT !.price = tick.price]),
                           stillPending |-> acc.stillPending]
                     ELSE [om |-> acc.om, stillPending |-> Append(acc.stillPending, order)]
         IN  tickLoop_AtTickPrice(next, Tail(rest), tick)

\* for (auto& order : pendingOrders) of handleTick(const Tick&)
RECURSIVE tickLoop(_, _, _)
tickLoop(acc, rest, tick) ==
    IF rest = <<>> THEN acc
    ELSE tickLoop(loopBody(acc, Head(rest), tickExecutes(Head(rest), tick)),
                  Tail(rest), tick)

\* for (auto& order : pendingOrders) of handleTick(const QuoteTick&)
RECURSIVE quoteLoop(_, _, _)
quoteLoop(acc, rest, quote) ==
    IF rest = <<>> THEN acc
    ELSE quoteLoop(loopBody(acc, Head(rest), quoteExecutes(Head(rest), quote)),
                   Tail(rest), quote)

\* getPnL valuing the position at price 1.
getPnL_NoPrice(c, p, lastPrice) == c + p

\* OrderManager::getPnL
getPnL(c, p, lastPrice) == c + p * lastPrice

\* OrderManager::OrderManager(int cash), with position = 0.0 and no pending order.
InitOrderManager ==
    /\ initialCash \in InitialCashes
    /\ cash = initialCash
    /\ position = 0
    /\ pendingOrders = <<>>
    /\ orders = <<>>
    /\ execCount = <<>>
    /\ pnl = nullopt
    /\ lastOp = "new"

\* submit that queues every order and executes none.
submit_QueuesOnly(o) ==
    /\ Len(orders) < MaxOrders
    /\ LET order == [side |-> o.side, type |-> o.type, volume |-> o.volume,
                     price |-> o.price, id |-> Len(orders) + 1]
       IN  /\ orders' = Append(orders, order)
           /\ pendingOrders' = Append(pendingOrders, order)
           /\ execCount' = Append(execCount, 0)
    /\ lastOp' = "submit"
    /\ pnl' = nullopt
    /\ UNCHANGED <<cash, position, initialCash, aggVars, barVars, metricVars, statsVars, engineVars>>

\* submit without the else: a MARKET order is executed and queued as well.
submit_AlwaysQueues(o) ==
    /\ Len(orders) < MaxOrders
    /\ LET order == [side |-> o.side, type |-> o.type, volume |-> o.volume,
                     price |-> o.price, id |-> Len(orders) + 1]
           om == OM(cash, position, Append(execCount, 0))
       IN  /\ orders' = Append(orders, order)
           /\ pendingOrders' = Append(pendingOrders, order)
           /\ IF order.type = "MARKET"
              THEN LET om2 == execute(om, order)
                   IN  /\ cash' = om2.cash
                       /\ position' = om2.position
                       /\ execCount' = om2.execCount
              ELSE /\ cash' = cash
                   /\ position' = position
                   /\ execCount' = om.execCount
    /\ lastOp' = "submit"
    /\ pnl' = nullopt
    /\ UNCHANGED <<initialCash, aggVars, barVars, metricVars, statsVars, engineVars>>

\* OrderManager::submit
submit(o) ==
    /\ Len(orders) < MaxOrders
    /\ LET order == [side |-> o.side, type |-> o.type, volume |-> o.volume,
                     price |-> o.price, id |-> Len(orders) + 1]
           om == OM(cash, position, Append(execCount, 0))
       IN  /\ orders' = Append(orders, order)
           /\ IF order.type = "MARKET"
              THEN LET om2 == execute(om, order)
                   IN  /\ cash' = om2.cash
                       /\ position' = om2.position
                       /\ execCount' = om2.execCount
                       /\ pendingOrders' = pendingOrders
              ELSE /\ pendingOrders' = Append(pendingOrders, order)
                   /\ cash' = cash
                   /\ position' = position
                   /\ execCount' = om.execCount
    /\ lastOp' = "submit"
    /\ pnl' = nullopt
    /\ UNCHANGED <<initialCash, aggVars, barVars, metricVars, statsVars, engineVars>>

\* OrderManager::handleTick(const Tick&)
handleTick(tick) ==
    /\ LET r == tickLoop([om |-> OM(cash, position, execCount), stillPending |-> <<>>],
                         pendingOrders, tick)
       IN  /\ cash' = r.om.cash
           /\ position' = r.om.position
           /\ execCount' = r.om.execCount
           /\ pendingOrders' = r.stillPending
    /\ lastOp' = "handleTick"
    /\ pnl' = nullopt
    /\ UNCHANGED <<initialCash, orders, aggVars, barVars, metricVars, statsVars, engineVars>>

\* OrderManager::handleTick(const QuoteTick&)
handleQuoteTick(quote) ==
    /\ LET r == quoteLoop([om |-> OM(cash, position, execCount), stillPending |-> <<>>],
                          pendingOrders, quote)
       IN  /\ cash' = r.om.cash
           /\ position' = r.om.position
           /\ execCount' = r.om.execCount
           /\ pendingOrders' = r.stillPending
    /\ lastOp' = "handleQuoteTick"
    /\ pnl' = nullopt
    /\ UNCHANGED <<initialCash, orders, aggVars, barVars, metricVars, statsVars, engineVars>>

\* A call of OrderManager::getPnL(lastPrice); pnl receives the returned value.
callGetPnL(lastPrice) ==
    /\ pnl' = Some(getPnL(cash, position, lastPrice))
    /\ lastOp' = "getPnL"
    /\ UNCHANGED <<cash, position, pendingOrders, initialCash, orders, execCount, aggVars, barVars, metricVars, statsVars, engineVars>>

\* ----------------------------------------------------------- BarAggregator
Max(a, b) == IF a >= b THEN a ELSE b
Min(a, b) == IF a <= b THEN a ELSE b

\* The timestamp rounded up to the next window boundary.
tickWindowOf_RoundsUp(timestamp, ws) == (timestamp \div ws) * ws + ws

\* uint64_t tickWindow = tick.timestamp / windowSize * windowSize
\* (unsigned integer division; the timestamps used are far below 2^64).
tickWindowOf(timestamp, ws) == (timestamp \div ws) * ws

\* update returning the bar it has just opened instead of the completed one.
update_ReturnsNewBar(ws, cw, cb, tick) ==
    LET tickWindow == tickWindowOf(tick.timestamp, ws)
        newBar == Some([startTimestamp |-> tickWindow,
                        endTimestamp |-> tickWindow + ws,
                        open |-> tick.price,
                        high |-> tick.price,
                        low |-> tick.price,
                        close |-> tick.price,
                        volume |-> tick.volume])
    IN  IF cb = nullopt \/ tickWindow # cw
        THEN [currentBar |-> newBar, currentWindow |-> tickWindow, ret |-> newBar]
        ELSE [currentBar |-> Some([cb[1] EXCEPT !.high = Max(cb[1].high, tick.price),
                                                !.low = Min(cb[1].low, tick.price),
                                                !.close = tick.price,
                                                !.volume = cb[1].volume + tick.volume]),
              currentWindow |-> cw,
              ret |-> nullopt]

\* update that leaves close at the first price of the window.
update_KeepsClose(ws, cw, cb, tick) ==
    LET tickWindow == tickWindowOf(tick.timestamp, ws)
    IN  IF cb = nullopt \/ tickWindow # cw
        THEN [currentBar |-> Some([startTimestamp |-> tickWindow,
                                   endTimestamp |-> tickWindow + ws,
                                   open |-> tick.price,
                                   high |-> tick.price,
                                   low |-> tick.price,
                                   close |-> tick.price,
                                   volume |-> tick.volume]),
              currentWindow |-> tickWindow,
              ret |-> cb]
        ELSE [currentBar |-> Some([cb[1] EXCEPT !.high = Max(cb[1].high, tick.price),
                                                !.low = Min(cb[1].low, tick.price),
                                                !.volume = cb[1].volume + tick.volume]),
              currentWindow |-> cw,
              ret |-> nullopt]

\* update that sets the volume of the bar to the volume of the last tick.
update_VolumeOfLast(ws, cw, cb, tick) ==
    LET tickWindow == tickWindowOf(tick.timestamp, ws)
    IN  IF cb = nullopt \/ tickWindow # cw
        THEN [currentBar |-> Some([startTimestamp |-> tickWindow,
                                   endTimestamp |-> tickWindow + ws,
                                   open |-> tick.price,
                                   high |-> tick.price,
                                   low |-> tick.price,
                                   close |-> tick.price,
                                   volume |-> tick.volume]),
              currentWindow |-> tickWindow,
              ret |-> cb]
        ELSE [currentBar |-> Some([cb[1] EXCEPT !.high = Max(cb[1].high, tick.price),
                                                !.low = Min(cb[1].low, tick.price),
                                                !.close = tick.price,
                                                !.volume = tick.volume]),
              currentWindow |-> cw,
              ret |-> nullopt]

\* BarAggregator::update, as a function of the object's fields and the tick:
\* the new fields and the returned value.
update(ws, cw, cb, tick) ==
    LET tickWindow == tickWindowOf(tick.timestamp, ws)
    IN  IF cb = nullopt \/ tickWindow # cw
        THEN [currentBar |-> Some([startTimestamp |-> tickWindow,
                                   endTimestamp |-> tickWindow + ws,
                                   open |-> tick.price,
                                   high |-> tick.price,
                                   low |-> tick.price,
                                   close |-> tick.price,
                                   volume |-> tick.volume]),
              currentWindow |-> tickWindow,
              ret |-> cb]
        ELSE [currentBar |-> Some([cb[1] EXCEPT !.high = Max(cb[1].high, tick.price),
                                                !.low = Min(cb[1].low, tick.price),
                                                !.close = tick.price,
                                                !.volume = cb[1].volume + tick.volume]),
              currentWindow |-> cw,
              ret |-> nullopt]

\* flush that hands the bar over and leaves the aggregator empty.
flush_Resets(ws, cw, cb) == [currentBar |-> nullopt, currentWindow |-> cw, ret |-> cb]

\* BarAggregator::flush, in the same form.
flush(ws, cw, cb) == [currentBar |-> cb, currentWindow |-> cw, ret |-> cb]

\* BarAggregator::BarAggregator(windowSize), currentWindow = 0, no currentBar.
InitBarAggregator ==
    /\ windowSize \in WindowSizes
    /\ currentWindow = 0
    /\ currentBar = nullopt
    /\ completed = nullopt
    /\ run = <<>>
    /\ nUpdates = 0
    /\ aggOp = "new"
    /\ prevAggOp = "new"

\* Whether two timestamps lie in the same window [w, w + windowSize).
SameWindow(t1, t2, ws) == t1 \div ws = t2 \div ws

\* A call of update(tick).
callUpdate(tick) ==
    /\ nUpdates < MaxEvents
    /\ LET r == update(windowSize, currentWindow, currentBar, tick)
       IN  /\ currentBar' = r.currentBar
           /\ currentWindow' = r.currentWindow
           /\ completed' = r.ret
    /\ run' = IF run # <<>> /\ SameWindow(run[Len(run)].timestamp, tick.timestamp, windowSize)
              THEN Append(run, tick)
              ELSE <<tick>>
    /\ nUpdates' = nUpdates + 1
    /\ aggOp' = "update"
    /\ prevAggOp' = aggOp
    /\ UNCHANGED <<windowSize, omVars, statsVars, engineVars, barVars, metricVars>>

\* A call of flush().
callFlush ==
    /\ LET r == flush(windowSize, currentWindow, currentBar)
       IN  /\ currentBar' = r.currentBar
           /\ currentWindow' = r.currentWindow
           /\ completed' = r.ret
    /\ aggOp' = "flush"
    /\ prevAggOp' = aggOp
    /\ UNCHANGED <<windowSize, run, nUpdates, omVars, statsVars, engineVars, barVars, metricVars>>

\* ---------------------------------------------------------- StatsCollector
\* The StatsCollector object: its four fields as one record.
SC(ip, ps, rs, sf) ==
    [initialPnL |-> ip, pnlSeries |-> ps, returnsSeries |-> rs, statsFunction |-> sf]

\* An empty std::unordered_map / std::map.
EmptyMap == [n \in {} |-> 0]

\* StatsCollector::StatsCollector(): initialPnL(0.0), empty series and registry.
NewStatsCollector == SC(0, <<>>, <<>>, EmptyMap)

Abs(x) == IF x < 0 THEN 0 - x ELSE x

\* (pnl - prev) / (std::abs(prev) + 1e-8), kept as its two integer operands:
\* the quotient is not an integer, and it is determined by them.
Return(value, prev) == [num |-> value - prev, absPrev |-> Abs(prev)]

\* recordPnL pushing a return on the first call as well (against initialPnL).
recordPnL_ReturnOnFirst(sc, value) ==
    LET sc1 == IF sc.pnlSeries = <<>> THEN [sc EXCEPT !.initialPnL = value] ELSE sc
        prev == IF sc1.pnlSeries = <<>> THEN sc1.initialPnL
                ELSE sc1.pnlSeries[Len(sc1.pnlSeries)]
        sc2 == [sc1 EXCEPT !.returnsSeries = Append(@, Return(value, prev))]
    IN  [sc2 EXCEPT !.pnlSeries = Append(@, value)]

\* recordPnL computing every return from the first value recorded.
recordPnL_FromInitial(sc, value) ==
    LET sc1 == IF sc.pnlSeries = <<>> THEN [sc EXCEPT !.initialPnL = value] ELSE sc
        sc2 == IF sc1.pnlSeries # <<>>
               THEN [sc1 EXCEPT !.returnsSeries = Append(@, Return(value, sc1.initialPnL))]
               ELSE sc1
    IN  [sc2 EXCEPT !.pnlSeries = Append(@, value)]

\* StatsCollector::recordPnL
recordPnL(sc, value) ==
    LET sc1 == IF sc.pnlSeries = <<>> THEN [sc EXCEPT !.initialPnL = value] ELSE sc
        sc2 == IF sc1.pnlSeries # <<>>
               THEN LET prev == sc1.pnlSeries[Len(sc1.pnlSeries)]
                    IN  [sc1 EXCEPT !.returnsSeries = Append(@, Return(value, prev))]
               ELSE sc1
    IN  [sc2 EXCEPT !.pnlSeries = Append(@, value)]

\* statsFunction[name] = function
MapPut(m, name, function) ==
    [n \in DOMAIN m \cup {name} |-> IF n = name THEN function ELSE m[n]]

\* addStat without the early return: the last registration wins.
addStat_Overwrites(sc, name, function) ==
    [sc EXCEPT !.statsFunction = MapPut(@, name, function)]

\* StatsCollector::addStat
addStat(sc, name, function) ==
    IF name \in DOMAIN sc.statsFunction
    THEN sc
    ELSE [sc EXCEPT !.statsFunction = MapPut(@, name, function)]

\* The loop of computeStats stopping after its first iteration.
RECURSIVE computeLoop_StopsAfterFirst(_, _, _)
computeLoop_StopsAfterFirst(acc, names, sf) ==
    IF names = {} THEN acc
    ELSE LET name == CHOOSE n \in names : TRUE
         IN  [results |-> MapPut(acc.results, name, sf[name]),
              calls |-> [acc.calls EXCEPT ![name] = @ + 1]]

\* The loop of computeStats over the entries of statsFunction not yet visited:
\* results[name] = fn().  The value fn() returns is not computed here; the
\* result map records under each name which function produced its value.
\* The iteration order of the unordered_map is unspecified; neither results
\* nor calls depends on it.
RECURSIVE computeLoop(_, _, _)
computeLoop(acc, names, sf) ==
    IF names = {} THEN acc
    ELSE LET name == CHOOSE n \in names : TRUE
         IN  computeLoop([results |-> MapPut(acc.results, name, sf[name]),
                          calls |-> [acc.calls EXCEPT ![name] = @ + 1]],
                         names \ {name}, sf)

\* No function of the registry sf invoked.
NoCalls(sf) == [n \in DOMAIN sf |-> 0]

\* computeStats satisfied with a single value in pnlSeries.
computeStats_OneSuffices(sc) ==
    IF Len(sc.pnlSeries) < 1
    THEN [results |-> EmptyMap, calls |-> NoCalls(sc.statsFunction)]
    ELSE computeLoop([results |-> EmptyMap, calls |-> NoCalls(sc.statsFunction)],
                     DOMAIN sc.statsFunction, sc.statsFunction)

\* computeStats without the test on the size of pnlSeries.
computeStats_NoSizeTest(sc) ==
    computeLoop([results |-> EmptyMap, calls |-> NoCalls(sc.statsFunction)],
                DOMAIN sc.statsFunction, sc.statsFunction)

\* StatsCollector::computeStats: the returned map, and the invocations made.
computeStats(sc) ==
    IF Len(sc.pnlSeries) < 2
    THEN [results |-> EmptyMap, calls |-> NoCalls(sc.statsFunction)]
    ELSE computeLoop([results |-> EmptyMap, calls |-> NoCalls(sc.statsFunction)],
                     DOMAIN sc.statsFunction, sc.statsFunction)

\* The closure registerUserStats builds for the statistic called name.
StandardFunction(name) == [origin |-> "registerUserStats", id |-> name]

\* registerUserStats clearing the collector it registers on.
registerUserStats_Clears(sc) ==
    LET s1 == addStat(NewStatsCollector, "MeanReturn", StandardFunction("MeanReturn"))
        s2 == addStat(s1, "TotalReturn", StandardFunction("TotalReturn"))
        s3 == addStat(s2, "MaxDrawdown", StandardFunction("MaxDrawdown"))
        s4 == addStat(s3, "AnnualizedVolatility", StandardFunction("AnnualizedVolatility"))
        s5 == addStat(s4, "Sharpe", StandardFunction("Sharpe"))
    IN  addStat(s5, "Sortino", StandardFunction("Sortino"))

\* registerUserStats leaving out its last addStat call.
registerUserStats_NoSortino(sc) ==
    LET s1 == addStat(sc, "MeanReturn", StandardFunction("MeanReturn"))
        s2 == addStat(s1, "TotalReturn", StandardFunction("TotalReturn"))
        s3 == addStat(s2, "MaxDrawdown", StandardFunction("MaxDrawdown"))
        s4 == addStat(s3, "AnnualizedVolatility", StandardFunction("AnnualizedVolatility"))
    IN  addStat(s4, "Sharpe", StandardFunction("Sharpe"))

\* registerUserStats(collector, tf, riskFreeRate, periodsPerYear): six addStat
\* calls, in the order of the source.
registerUserStats(sc) ==
    LET s1 == addStat(sc, "MeanReturn", StandardFunction("MeanReturn"))
        s2 == addStat(s1, "TotalReturn", StandardFunction("TotalReturn"))
        s3 == addStat(s2, "MaxDrawdown", StandardFunction("MaxDrawdown"))
        s4 == addStat(s3, "AnnualizedVolatility", StandardFunction("AnnualizedVolatility"))
        s5 == addStat(s4, "Sharpe", StandardFunction("Sharpe"))
    IN  addStat(s5, "Sortino", StandardFunction("Sortino"))

\* The collector held in the variables.
ThisCollector == SC(initialPnL, pnlSeries, returnsSeries, statsFunction)

\* A freshly constructed collector on which nothing was called yet.
InitStatsCollector ==
    /\ initialPnL = NewStatsCollector.initialPnL
    /\ pnlSeries = NewStatsCollector.pnlSeries
    /\ returnsSeries = NewStatsCollector.returnsSeries
    /\ statsFunction = NewStatsCollector.statsFunction
    /\ firstFunction = EmptyMap
    /\ userAdded = FALSE
    /\ results = nullopt
    /\ calls = EmptyMap
    /\ statsOp = "new"

\* The fields of the collector become those of sc.
StoreCollector(sc) ==
    /\ initialPnL' = sc.initialPnL
    /\ pnlSeries' = sc.pnlSeries
    /\ returnsSeries' = sc.returnsSeries
    /\ statsFunction' = sc.statsFunction

\* firstFunction after a call addStat(name, function).
NoteFirst(ff, name, function) ==
    IF name \in DOMAIN ff THEN ff ELSE MapPut(ff, name, function)

\* A call of recordPnL(value).
callRecordPnL(value) ==
    /\ Len(pnlSeries) < MaxRecords
    /\ StoreCollector(recordPnL(ThisCollector, value))
    /\ results' = nullopt
    /\ calls' = EmptyMap
    /\ statsOp' = "recordPnL"
    /\ UNCHANGED <<firstFunction, userAdded, omVars, aggVars, barVars, metricVars, engineVars>>

\* A call of addStat(name, function) by a user of the class.
callAddStat(name, function) ==
    /\ StoreCollector(addStat(ThisCollector, name, function))
    /\ firstFunction' = NoteFirst(firstFunction, name, function)
    /\ userAdded' = TRUE
    /\ results' = nullopt
    /\ calls' = EmptyMap
    /\ statsOp' = "addStat"
    /\ UNCHANGED <<omVars, aggVars, barVars, metricVars, engineVars>>

\* A call of registerUserStats on the collector.
callRegisterUserStats ==
    /\ StoreCollector(registerUserStats(ThisCollector))
    /\ firstFunction' =
           LET f1 == NoteFirst(firstFunction, "MeanReturn", StandardFunction("MeanReturn"))
               f2 == NoteFirst(f1, "TotalReturn", StandardFunction("TotalReturn"))
               f3 == NoteFirst(f2, "MaxDrawdown", StandardFunction("MaxDrawdown"))
               f4 == NoteFirst(f3, "AnnualizedVolatility",
                               StandardFunction("AnnualizedVolatility"))
               f5 == NoteFirst(f4, "Sharpe", StandardFunction("Sharpe"))
           IN  NoteFirst(f5, "Sortino", StandardFunction("Sortino"))
    /\ results' = nullopt
    /\ calls' = EmptyMap
    /\ statsOp' = "registerUserStats"
    /\ UNCHANGED <<userAdded, omVars, aggVars, barVars, metricVars, engineVars>>

\* A call of computeStats(); results and calls receive what it returned and did.
callComputeStats ==
    /\ LET r == computeStats(ThisCollector)
       IN  /\ results' = Some(r.results)
           /\ calls' = r.calls
    /\ statsOp' = "computeStats"
    /\ UNCHANGED <<initialPnL, pnlSeries, returnsSeries, statsFunction, firstFunction,
                   userAdded, omVars, aggVars, barVars, metricVars, engineVars>>

\* ------------------------------------------------------ standard statistics
\* The closures registerUserStats registers, as functions of the collector
\* they reference and of what they captured.  In this part a value is an
\* integer number of 1e-9, so that values on both sides of the threshold
\* 1e-8 of the source exist; a quotient is kept exact, as a numerator n and a
\* positive denominator d.
Epsilon == 10
MetricValues == {-20, 0, 5, 20, 40}
RiskFreeRates == {0, 1}
TimeFrames == {"MINUTE", "FIVEMINTUES", "DAY"}

Rat(n, d) == [n |-> n, d |-> d]
RatAdd(a, b) == Rat(a.n * b.d + b.n * a.d, a.d * b.d)
RatLess(a, b) == a.n * b.d < b.n * a.d
RatEq(a, b) == a.n * b.d = b.n * a.d
\* std::min(a, b): b if b < a, else a.
RatMin(a, b) == IF RatLess(b, a) THEN b ELSE a

\* getTicksPerDay(tf), for the time frames with a whole number of ticks.
getTicksPerDay(tf) ==
    CASE tf = "MINUTE" -> 390
      [] tf = "FIVEMINTUES" -> 78
      [] tf = "DAY" -> 1

\* A stored return as a quotient: (pnl - prev) / (std::abs(prev) + 1e-8).
Quotient(r) == Rat(r.num, r.absPrev + Epsilon)

\* std::accumulate(ret.begin(), ret.end(), 0.0)
RECURSIVE accumulate(_)
accumulate(rs) ==
    IF rs = <<>> THEN Rat(0, 1) ELSE RatAdd(Quotient(Head(rs)), accumulate(Tail(rs)))

\* std::accumulate(...) / returns.size(), for a series that is not empty.
meanOf(rs) == Rat(accumulate(rs).n, accumulate(rs).d * Len(rs))

\* The value 0.0 a closure returns from a guard.
Zero == [form |-> "zero"]

\* The MeanReturn closure.
MeanReturn(sc) ==
    IF sc.returnsSeries = <<>> THEN Rat(0, 1) ELSE meanOf(sc.returnsSeries)

\* The TotalReturn closure: pnl.back() / pnl.front() - 1.0 when
\* |pnl.front()| > 1e-8.  It reads front() and back() without testing
\* whether the series is empty (see closureHazards).
TotalReturn(sc) ==
    IF sc.pnlSeries = <<>> THEN Rat(0, 1)
    ELSE LET front == sc.pnlSeries[1]
             back == sc.pnlSeries[Len(sc.pnlSeries)]
         IN  IF Abs(front) > Epsilon
             THEN IF front > 0 THEN Rat(back - front, front)
                  ELSE Rat(front - back, 0 - front)
             ELSE Rat(0, 1)

\* The loop of the MaxDrawdown closure with peak left at the first value.
RECURSIVE maxDrawdownLoop_PeakIsFirst(_, _, _)
maxDrawdownLoop_PeakIsFirst(peak, maxDD, rest) ==
    IF rest = <<>> THEN maxDD
    ELSE LET v == Head(rest)
         IN  maxDrawdownLoop_PeakIsFirst(
                 peak, IF peak > Epsilon THEN RatMin(maxDD, Rat(v - peak, peak)) ELSE maxDD,
                 Tail(rest))

\* for (double pnl : pnlSeries) of the MaxDrawdown closure.
RECURSIVE maxDrawdownLoop(_, _, _)
maxDrawdownLoop(peak, maxDD, rest) ==
    IF rest = <<>> THEN maxDD
    ELSE LET v == Head(rest)
             p == Max(peak, v)
         IN  maxDrawdownLoop(
                 p, IF p > Epsilon THEN RatMin(maxDD, Rat(v - p, p)) ELSE maxDD,
                 Tail(rest))

\* The MaxDrawdown closure.
MaxDrawdown(sc) ==
    IF sc.pnlSeries = <<>> THEN Rat(0, 1)
    ELSE maxDrawdownLoop(sc.pnlSeries[1], Rat(0, 1), sc.pnlSeries)

\* The AnnualizedVolatility closure: std::sqrt(var) * std::sqrt(nPeriods),
\* kept as the operands var and nPeriods are computed from.
AnnualizedVolatility(sc, nPeriods) ==
    IF Len(sc.returnsSeries) < 2 THEN Zero
    ELSE [form |-> "volatility", returns |-> sc.returnsSeries, nPeriods |-> nPeriods]

\* The Sharpe closure: (mean - riskFreeRate) / std::sqrt(var + 1e-8) *
\* std::sqrt(nPeriods), kept as the excess mean - riskFreeRate and the
\* operands var and nPeriods are computed from; rf is the value the closure
\* reads through its reference to riskFreeRate.
Sharpe(sc, nPeriods, rf) ==
    IF Len(sc.returnsSeries) < 2 THEN Zero
    ELSE [form |-> "sharpe", excess |-> RatAdd(meanOf(sc.returnsSeries), Rat(0 - rf, 1)),
          returns |-> sc.returnsSeries, nPeriods |-> nPeriods]

\* The number of negative returns (downsideCount of the Sortino closure).
downsideCount(rs) == Cardinality({j \in 1..Len(rs) : rs[j].num < 0})

\* The Sortino closure, in the same form as Sharpe.
Sortino(sc, nPeriods, rf) ==
    IF Len(sc.returnsSeries) < 2 \/ downsideCount(sc.returnsSeries) = 0 THEN Zero
    ELSE [form |-> "sortino", excess |-> RatAdd(meanOf(sc.returnsSeries), Rat(0 - rf, 1)),
          returns |-> sc.returnsSeries, nPeriods |-> nPeriods]

\* Whether an invocation of the closure reads riskFreeRate.
readsRiskFreeRate(name, sc) ==
    \/ name = "Sharpe" /\ Len(sc.returnsSeries) >= 2
    \/ name = "Sortino" /\ Len(sc.returnsSeries) >= 2
                        /\ downsideCount(sc.returnsSeries) # 0

\* What an invocation of the closure does that has no defined result:
\* TotalReturn reads front() and back() of pnlSeries, Sortino divides the sum
\* by returns.size() before any test.
closureHazards(name, sc) ==
    (IF name = "TotalReturn" /\ sc.pnlSeries = <<>>
     THEN {"front() of an empty series"} ELSE {})
    \cup (IF name = "Sortino" /\ sc.returnsSeries = <<>>
          THEN {"division by a zero length"} ELSE {})

\* The value fn() returns for a closure of registerUserStats; rd[name] is what
\* the closure reads through its reference to riskFreeRate.
invoke(fn, sc, nPeriods, rd) ==
    CASE fn.id = "MeanReturn" -> MeanReturn(sc)
      [] fn.id = "TotalReturn" -> TotalReturn(sc)
      [] fn.id = "MaxDrawdown" -> MaxDrawdown(sc)
      [] fn.id = "AnnualizedVolatility" -> AnnualizedVolatility(sc, nPeriods)
      [] fn.id = "Sharpe" -> Sharpe(sc, nPeriods, rd["Sharpe"])
      [] fn.id = "Sortino" -> Sortino(sc, nPeriods, rd["Sortino"])

\* No registerUserStats call made yet.  riskFreeRate is the argument of the
\* call, paramAlive whether the parameter objects of the call still exist,
\* nPeriods the value the closures captured by copy; values, reads, hazards
\* and sizes describe the last computeStats call: the value each closure
\* returned, what Sharpe and Sortino read as riskFreeRate, what an invocation
\* did that has no defined result, and the sizes of the two series when the
\* closures were invoked (instrumentation).
NewStatsEnv ==
    [registered |-> FALSE, riskFreeRate |-> 0, nPeriods |-> 0, paramAlive |-> FALSE,
     values |-> nullopt, reads |-> EmptyMap, hazards |-> {}, sizes |-> nullopt]

\* The values a read of riskFreeRate through the captured reference may give.
\* The closures capture the parameter riskFreeRate of registerUserStats by
\* reference; once that call has returned the object is gone and the read is
\* undefined behaviour: any value.
readRiskFreeRate(env) == IF env.paramAlive THEN {env.riskFreeRate} ELSE RiskFreeRates

\* registerUserStats(collector, tf, riskFreeRate) with the default
\* periodsPerYear, from the call to the return: nPeriods is computed and
\* copied into the closures, the six closures are registered, and the
\* parameters' lifetime ends.
statsRegister(tf, rf) ==
    /\ ~statsEnv.registered
    /\ StoreCollector(registerUserStats(ThisCollector))
    /\ statsEnv' = [NewStatsEnv EXCEPT !.registered = TRUE,
                                       !.riskFreeRate = rf,
                                       !.nPeriods = getTicksPerDay(tf) * 252,
                                       !.paramAlive = FALSE]
    /\ results' = nullopt
    /\ calls' = EmptyMap
    /\ statsOp' = "registerUserStats"
    /\ UNCHANGED <<firstFunction, userAdded, omVars, aggVars, barVars, engineVars>>

\* recordPnL(value) on the collector.
statsRecordPnL(value) ==
    /\ Len(pnlSeries) < MaxRecords
    /\ StoreCollector(recordPnL(ThisCollector, value))
    /\ statsEnv' = [statsEnv EXCEPT !.values = nullopt, !.reads = EmptyMap,
                                    !.hazards = {}, !.sizes = nullopt]
    /\ results' = nullopt
    /\ calls' = EmptyMap
    /\ statsOp' = "recordPnL"
    /\ UNCHANGED <<firstFunction, userAdded, omVars, aggVars, barVars, engineVars>>

\* computeStats() on the collector, the closures it invokes included.
statsCompute ==
    /\ LET sc == ThisCollector
           r == computeStats(sc)
           invoked == DOMAIN r.results
           readers == {name \in invoked : readsRiskFreeRate(name, sc)}
       IN  /\ results' = Some(r.results)
           /\ calls' = r.calls
           /\ \E r1 \in readRiskFreeRate(statsEnv), r2 \in readRiskFreeRate(statsEnv) :
                  LET rd == [name \in {"Sharpe", "Sortino"} |->
                                IF name = "Sharpe" THEN r1 ELSE r2]
                  IN  /\ "Sharpe" \notin readers => r1 = statsEnv.riskFreeRate
                      /\ "Sortino" \notin readers => r2 = statsEnv.riskFreeRate
                      /\ statsEnv' =
                             [statsEnv EXCEPT
                                  !.values = Some([name \in invoked |->
                                                      invoke(r.results[name], sc,
                                                             statsEnv.nPeriods, rd)]),
                                  !.reads = [name \in readers |-> rd[name]],
                                  !.hazards = UNION {closureHazards(name, sc) :
                                                         name \in invoked},
                                  !.sizes = IF invoked = {} THEN nullopt
                                            ELSE Some([values |-> Len(sc.pnlSeries),
                                                       returns |-> Len(sc.returnsSeries)])]
    /\ statsOp' = "computeStats"
    /\ UNCHANGED <<initialPnL, pnlSeries, returnsSeries, statsFunction, firstFunction,
                   userAdded, omVars, aggVars, barVars, engineVars>>

\* ---------------------------------------------------------- BacktestEngine
\* A context's OrderManager: its fields, and the execution count of every
\* order submitted to it (instrumentation, as execCount above).
Ledger(c, p, po, e) == [cash |-> c, position |-> p, pendingOrders |-> po, execCount |-> e]

\* OrderManager::OrderManager(int cash) for the ledger of a context.
NewLedger(c) == Ledger(c, 0, <<>>, <<>>)

\* OrderManager::submit on the ledger of a context.
ledgerSubmit(led, o) ==
    LET order == [side |-> o.side, type |-> o.type, volume |-> o.volume,
                  price |-> o.price, id |-> Len(led.execCount) + 1]
        om == OM(led.cash, led.position, Append(led.execCount, 0))
    IN  IF order.type = "MARKET"
        THEN LET om2 == execute(om, order)
             IN  Ledger(om2.cash, om2.position, led.pendingOrders, om2.execCount)
        ELSE Ledger(om.cash, om.position, Append(led.pendingOrders, order), om.execCount)

\* OrderManager::handleTick(const Tick&) on the ledger of a context.
ledgerHandleTick(led, tick) ==
    LET r == tickLoop([om |-> OM(led.cash, led.position, led.execCount),
                       stillPending |-> <<>>], led.pendingOrders, tick)
    IN  Ledger(r.om.cash, r.om.position, r.stillPending, r.om.execCount)

\* The match that does not look at the newest pending order.
ledgerHandleQuote_SkipsNewest(led, quote) ==
    IF led.pendingOrders = <<>> THEN led
    ELSE LET n == Len(led.pendingOrders)
             r == quoteLoop([om |-> OM(led.cash, led.position, led.execCount),
                             stillPending |-> <<>>],
                            SubSeq(led.pendingOrders, 1, n - 1), quote)
         IN  Ledger(r.om.cash, r.om.position,
                    Append(r.stillPending, led.pendingOrders[n]), r.om.execCount)

\* OrderManager::handleTick(const QuoteTick&) on the ledger of a context.
ledgerHandleQuote(led, quote) ==
    LET r == quoteLoop([om |-> OM(led.cash, led.position, led.execCount),
                        stillPending |-> <<>>], led.pendingOrders, quote)
    IN  Ledger(r.om.cash, r.om.position, r.stillPending, r.om.execCount)

\* The implicit conversion of the double initialCash to the int parameter of
\* OrderManager::OrderManager(int cash): the fractional part is discarded
\* (truncation toward zero).
intOf(d) == IF d.units < 0 /\ d.halves # 0 THEN d.units + 1 ELSE d.units

\* StrategyContext::StrategyContext.  initialCash is the constructor's
\* argument, kept as instrumentation (the class does not store it).
\* strategyOM is the strategy's orderManager pointer: nullopt for nullptr,
\* Some(k) when it points to the ledger of strategies[k].  The strategy object is represented by its kind; the time
\* frame only parameterizes the closures of registerUserStats and is left out.
StrategyContext(name, kind, initCash) ==
    [name |-> name, kind |-> kind, strategyOM |-> nullopt, initialCash |-> initCash,
     orderManager |-> NewLedger(intOf(initCash)), statistics |-> NewStatsCollector]

\* A std::thread that was default-constructed: it runs nothing.  i is the
\* index of the event the loop is at, stats the local variable of the lambda,
\* log the steps the worker has performed so far (instrumentation), loop the
\* loop the worker has entered ("quote", "trade" or "none"), delivered and
\* matched the events it has passed to onTick and to handleTick, submitted
\* the orders its strategy has sent in each onTick and in onEnd, afterMatch
\* the cash and position of its ledger at the return of each handleTick,
\* reported the value it has printed as "Final PnL", startedFrom the ledger
\* of its context when the thread was created (instrumentation).
NewThread ==
    [pc |-> "notStarted", i |-> 0, stats |-> nullopt, log |-> <<>>,
     loop |-> "none", delivered |-> <<>>, matched |-> <<>>, submitted |-> <<>>,
     afterMatch |-> <<>>, reported |-> nullopt, startedFrom |-> nullopt]

\* What a strategy may do in onTick: the orders it submits on the event, one
\* after the other.  A trade-based strategy may send a MARKET BUY at the
\* tick's price, a quote-based one a LIMIT BUY at the bid of a QuoteTick (its
\* onTick(const Tick&) is the empty one of QuoteStrategy); both print a
\* message after submitting.
StrategyOrders(kind, event) ==
    IF kind = "quote"
    THEN IF "bid" \in DOMAIN event
         THEN {<<>>, <<[side |-> "BUY", type |-> "LIMIT", volume |-> 1,
                        price |-> event.bid]>>}
         ELSE {<<>>}
    ELSE {<<>>, <<[side |-> "BUY", type |-> "MARKET", volume |-> 1, price |-> event.price]>>}

\* What a strategy may do in onEnd (the hook is empty by default; a strategy
\* may override it): with a long position it may send a MARKET SELL.
StrategyEndOrders(kind, pos) ==
    IF pos > 0
    THEN {<<>>, <<[side |-> "SELL", type |-> "MARKET", volume |-> 1, price |-> 100]>>}
    ELSE {<<>>}

\* All the orders of a sequence submitted in turn.
RECURSIVE submitAll(_, _)
submitAll(led, os) ==
    IF os = <<>> THEN led ELSE submitAll(ledgerSubmit(led, Head(os)), Tail(os))

\* The lambda reaching its context through the loop variable of runAll (a
\* reference) instead of its own copy of the pointer.
ctx_LoopVariable(w) ==
    IF mainPc.pc \in {"bind", "register", "launch"} THEN mainPc.k ELSE Len(strategies)

\* The context a worker works on: ctx = context.get(), captured by value when
\* the thread of strategies[w] is created.
ctx(w) == w

\* The cast that always fails.
isQuoteStrategy_Never(kind) == FALSE

\* dynamic_cast<QuoteStrategy*>(ctx->strategy.get()) gives a non-null pointer.
isQuoteStrategy(kind) == kind = "quote"

\* The series of a kind of strategy, which is the one the worker's loop of
\* that kind iterates over: quoteData for "quote", data for "trade".
SeriesOf(kind) == IF kind = "quote" THEN quoteData ELSE data

\* The valuation of a quote taken at its bid.
RefPrice_Bid(kind, event) ==
    IF kind = "quote" THEN event.bid ELSE event.price

\* The reference price of the valuation recorded after an event: the price
\* of a Tick, (bid + ask) / 2.0 for a QuoteTick.
RefPrice(kind, event) ==
    IF kind = "quote" THEN (event.bid + event.ask) \div 2 ELSE event.price

\* The loop leaving before the last element of the series.
loopNext_SkipsLast(i, n) ==
    IF i + 1 < n THEN [pc |-> "onTick", i |-> i + 1] ELSE [pc |-> "onEnd", i |-> i]

\* The range-based for loop over the series, after the body for element i of
\* n: the body for the next element, or the statement after the loop.
loopNext(i, n) ==
    IF i < n THEN [pc |-> "onTick", i |-> i + 1] ELSE [pc |-> "onEnd", i |-> i]

\* A mutex that can always be locked.
lockable_Always(mutex) == TRUE

\* std::lock_guard / std::unique_lock construction returns once the mutex is
\* not held by any thread.
lockable(mutex) == mutex = nullopt

\* A guard whose destruction leaves the mutex held.
unlock_Keeps(mutex) == mutex

\* The end of the guard's scope: the destructor of std::lock_guard /
\* std::unique_lock releases the mutex.
unlock(mutex) == nullopt

\* join returning at once, whatever the thread is doing.
joined_NoWait(thread) == TRUE

\* std::thread::join returns once the thread's function has returned.
joined(thread) == thread.pc = "finished"

\* The main thread's position from iteration k of the join loop on.
JoinFrom(k) ==
    IF k <= Len(strategies) THEN [mainPc EXCEPT !.pc = "join", !.k = k]
    ELSE [mainPc EXCEPT !.pc = "returned", !.k = 0]

\* The main thread's position from iteration k of the launch loop on.
LaunchFrom(k) ==
    IF k <= Len(strategies) THEN [mainPc EXCEPT !.pc = "bind", !.k = k] ELSE JoinFrom(1)

\* A new engine, before main has called anything on it; run counts the calls
\* of runAll made on it (instrumentation).
InitEngine ==
    /\ data = <<>>
    /\ quoteData = <<>>
    /\ strategies = <<>>
    /\ threads = <<>>
    /\ mainPc = [pc |-> "setup", k |-> 0, run |-> 0]
    /\ verbose = FALSE
    /\ globalPrintMutex = nullopt
    /\ terminated = FALSE

\* BacktestEngine::setTickData(std::vector<Tick>), called before runAll.
setTickData(n) ==
    /\ ~terminated
    /\ mainPc.pc = "setup"
    /\ data' = TradeFeed(n)
    /\ UNCHANGED <<quoteData, strategies, threads, mainPc, verbose, globalPrintMutex,
                   terminated, omVars, aggVars, barVars, metricVars, statsVars>>

\* BacktestEngine::setTickData(std::vector<QuoteTick>), called before runAll.
setQuoteTickData(n) ==
    /\ ~terminated
    /\ mainPc.pc = "setup"
    /\ quoteData' = QuoteFeed(n)
    /\ UNCHANGED <<data, strategies, threads, mainPc, verbose, globalPrintMutex,
                   terminated, omVars, aggVars, barVars, metricVars, statsVars>>

\* BacktestEngine::addStrategy, called before runAll.
addStrategy(kind, initCash) ==
    /\ ~terminated
    /\ mainPc.pc = "setup"
    /\ Len(strategies) < Len(StrategyNames)
    /\ strategies' = Append(strategies,
                            StrategyContext(StrategyNames[Len(strategies) + 1], kind, initCash))
    /\ threads' = Append(threads, NewThread)
    /\ UNCHANGED <<data, quoteData, mainPc, verbose, globalPrintMutex, terminated,
                   omVars, aggVars, barVars, metricVars, statsVars>>

\* The call of runAll(saveToCSV, verbose): the main thread enters the first
\* loop.  saveToCSV only decides whether files are written by the workers.
runAll(v) ==
    /\ ~terminated
    /\ mainPc.pc = "setup"
    /\ verbose' = v
    /\ mainPc' = [LaunchFrom(1) EXCEPT !.run = @ + 1]
    /\ UNCHANGED <<data, quoteData, strategies, threads, globalPrintMutex, terminated,
                   omVars, aggVars, barVars, metricVars, statsVars>>

\* runAll(saveToCSV, verbose) called again on the engine after a call of it
\* has returned: the same function body, on the members as they are.
runAllAgain(v) ==
    /\ ~terminated
    /\ mainPc.pc = "returned"
    /\ mainPc.run < MaxRuns
    /\ verbose' = v
    /\ mainPc' = [LaunchFrom(1) EXCEPT !.run = @ + 1]
    /\ UNCHANGED <<data, quoteData, strategies, threads, globalPrintMutex, terminated,
                   omVars, aggVars, barVars, metricVars, statsVars>>

\* The address of the first context's ledger, whatever the context.
ownLedger_First(k) == 1

\* &context->orderManager for the context strategies[k]: the ledger that is
\* a member of that context.
ownLedger(k) == k

\* runAll: context->strategy->setOrderManager(&context->orderManager)
runAllBind ==
    /\ ~terminated
    /\ mainPc.pc = "bind"
    /\ strategies' = [strategies EXCEPT ![mainPc.k].strategyOM = Some(ownLedger(mainPc.k))]
    /\ mainPc' = [mainPc EXCEPT !.pc = "register"]
    /\ UNCHANGED <<data, quoteData, threads, verbose, globalPrintMutex, terminated,
                   omVars, aggVars, barVars, metricVars, statsVars>>

\* runAll: registerUserStats(context->statistics, context->tf)
runAllRegister ==
    /\ ~terminated
    /\ mainPc.pc = "register"
    /\ strategies' = [strategies EXCEPT ![mainPc.k].statistics = registerUserStats(@)]
    /\ mainPc' = [mainPc EXCEPT !.pc = "launch"]
    /\ UNCHANGED <<data, quoteData, threads, verbose, globalPrintMutex, terminated,
                   omVars, aggVars, barVars, metricVars, statsVars>>

\* runAll: context->worker = std::thread(...); the loop goes on.  The thread
\* object assigned is a new one, running the lambda from its start.
runAllLaunch ==
    /\ ~terminated
    /\ mainPc.pc = "launch"
    /\ threads' = [threads EXCEPT ![mainPc.k] =
                       [NewThread EXCEPT
                            !.pc = "onStart",
                            !.startedFrom = Some(strategies[mainPc.k].orderManager)]]
    /\ mainPc' = LaunchFrom(mainPc.k + 1)
    /\ UNCHANGED <<data, quoteData, strategies, verbose, globalPrintMutex, terminated,
                   omVars, aggVars, barVars, metricVars, statsVars>>

\* runAll: if (context->worker.joinable()) context->worker.join(); every
\* worker was launched by the first loop, so it is joinable.
runAllJoin ==
    /\ ~terminated
    /\ mainPc.pc = "join"
    /\ joined(threads[mainPc.k])
    /\ threads' = [threads EXCEPT ![mainPc.k].pc =
                       IF @ = "finished" THEN "joined" ELSE @]
    /\ mainPc' = JoinFrom(mainPc.k + 1)
    /\ UNCHANGED <<data, quoteData, strategies, verbose, globalPrintMutex, terminated,
                   omVars, aggVars, barVars, metricVars, statsVars>>

\* main, after runAll: std::unique_lock<std::mutex> lock(globalPrintMutex)
mainLock ==
    /\ ~terminated
    /\ mainPc.pc = "returned"
    /\ verbose
    /\ lockable(globalPrintMutex)
    /\ globalPrintMutex' = Some(0)
    /\ mainPc' = [mainPc EXCEPT !.pc = "cout"]
    /\ UNCHANGED <<data, quoteData, strategies, threads, verbose, terminated,
                   omVars, aggVars, barVars, metricVars, statsVars>>

\* main: the elapsed time is printed and the lock released.
mainCout ==
    /\ ~terminated
    /\ mainPc.pc = "cout"
    /\ globalPrintMutex' = unlock(globalPrintMutex)
    /\ mainPc' = [mainPc EXCEPT !.pc = "exit"]
    /\ UNCHANGED <<data, quoteData, strategies, threads, verbose, terminated,
                   omVars, aggVars, barVars, metricVars, statsVars>>

\* The worker lambda: ctx->strategy->onStart()
workerOnStart(w) ==
    /\ ~terminated
    /\ threads[w].pc = "onStart"
    /\ threads' = [threads EXCEPT ![w].pc = "dispatch",
                                  ![w].log = Append(@, <<"onStart", 0>>)]
    /\ UNCHANGED <<data, quoteData, strategies, mainPc, verbose, globalPrintMutex,
                   terminated, omVars, aggVars, barVars, metricVars, statsVars>>

\* The worker lambda: the dynamic_cast and the tests on quoteData and data.
\* The exception thrown when a trade-based strategy finds data empty is
\* caught nowhere: std::terminate ends the process.
workerDispatch(w) ==
    /\ ~terminated
    /\ threads[w].pc = "dispatch"
    /\ IF isQuoteStrategy(strategies[ctx(w)].kind)
       THEN /\ threads' = IF quoteData # <<>>
                          THEN [threads EXCEPT ![w].pc = "onTick", ![w].i = 1,
                                               ![w].loop = "quote"]
                          ELSE [threads EXCEPT ![w].pc = "onEnd"]
            /\ terminated' = terminated
       ELSE IF data # <<>>
       THEN /\ threads' = [threads EXCEPT ![w].pc = "onTick", ![w].i = 1,
                                          ![w].loop = "trade"]
            /\ terminated' = terminated
       ELSE /\ threads' = [threads EXCEPT ![w].pc = "thrown"]
            /\ terminated' = TRUE
    /\ UNCHANGED <<data, quoteData, strategies, mainPc, verbose, globalPrintMutex,
                   omVars, aggVars, barVars, metricVars, statsVars>>

\* The worker lambda: onTick(tick).  The strategy submits its orders through
\* its orderManager pointer; if it has submitted any, it goes on to print.
workerOnTick(w) ==
    /\ ~terminated
    /\ threads[w].pc = "onTick"
    /\ LET c == ctx(w)
           kind == strategies[c].kind
           event == SeriesOf(threads[w].loop)[threads[w].i]
       IN  \E os \in StrategyOrders(kind, event) :
              /\ os # <<>> => strategies[c].strategyOM # nullopt
              /\ strategies' =
                     IF os = <<>> THEN strategies
                     ELSE [strategies EXCEPT ![strategies[c].strategyOM[1]].orderManager =
                                                 submitAll(@, os)]
              /\ threads' = [threads EXCEPT
                                ![w].pc = IF os = <<>> THEN "handleTick" ELSE "printLock",
                                ![w].log = Append(@, <<"onTick", threads[w].i>>),
                                ![w].delivered = Append(@, event),
                                ![w].submitted = Append(@, os)]
    /\ UNCHANGED <<data, quoteData, mainPc, verbose, globalPrintMutex, terminated,
                   omVars, aggVars, barVars, metricVars, statsVars>>

\* std::lock_guard<std::mutex> lock(globalPrintMutex), in a strategy's onTick
\* and in the verbose block of the worker lambda.
workerLock(w) ==
    /\ ~terminated
    /\ threads[w].pc \in {"printLock", "reportLock"}
    /\ lockable(globalPrintMutex)
    /\ globalPrintMutex' = Some(w)
    /\ threads' = [threads EXCEPT ![w].pc = IF @ = "printLock" THEN "printCout"
                                            ELSE "reportCout"]
    /\ UNCHANGED <<data, quoteData, strategies, mainPc, verbose, terminated,
                   omVars, aggVars, barVars, metricVars, statsVars>>

\* The printed value taken at price 1.
finalPnL_AtUnitPrice(led) == getPnL(led.cash, led.position, 1)

\* The value printed as "Final PnL": ctx->orderManager.getPnL(0.0)
finalPnL(led) == getPnL(led.cash, led.position, 0)

\* std::cout << ... and the end of the lock_guard's scope: the message is
\* written and the mutex released.  The message of the verbose block starts
\* with the "Final PnL" of the worker's context.
workerCout(w) ==
    /\ ~terminated
    /\ threads[w].pc \in {"printCout", "reportCout"}
    /\ globalPrintMutex' = unlock(globalPrintMutex)
    /\ threads' = IF threads[w].pc = "printCout"
                  THEN [threads EXCEPT ![w].pc = "handleTick"]
                  ELSE [threads EXCEPT
                            ![w].pc = "return",
                            ![w].reported =
                                Some(finalPnL(strategies[ctx(w)].orderManager))]
    /\ UNCHANGED <<data, quoteData, strategies, mainPc, verbose, terminated,
                   omVars, aggVars, barVars, metricVars, statsVars>>

\* The worker lambda: ctx->orderManager.handleTick(tick)
workerHandleTick(w) ==
    /\ ~terminated
    /\ threads[w].pc = "handleTick"
    /\ LET c == ctx(w)
           loop == threads[w].loop
           event == SeriesOf(loop)[threads[w].i]
       IN  /\ strategies' = [strategies EXCEPT ![c].orderManager =
                                IF loop = "quote" THEN ledgerHandleQuote(@, event)
                                ELSE ledgerHandleTick(@, event)]
           /\ threads' = [threads EXCEPT
                             ![w].pc = "recordPnL",
                             ![w].log = Append(@, <<"handleTick", threads[w].i>>),
                             ![w].matched = Append(@, event),
                             ![w].afterMatch =
                                 Append(@, [cash |-> strategies'[c].orderManager.cash,
                                            position |-> strategies'[c].orderManager.position])]
    /\ UNCHANGED <<data, quoteData, mainPc, verbose, globalPrintMutex, terminated,
                   omVars, aggVars, barVars, metricVars, statsVars>>

\* The worker lambda: ctx->statistics.recordPnL(ctx->orderManager.getPnL(ref)),
\* and the step of the range-based for loop.
workerRecordPnL(w) ==
    /\ ~terminated
    /\ threads[w].pc = "recordPnL"
    /\ LET c == ctx(w)
           loop == threads[w].loop
           event == SeriesOf(loop)[threads[w].i]
           led == strategies[c].orderManager
       IN  /\ strategies' = [strategies EXCEPT ![c].statistics =
                                recordPnL(@, getPnL(led.cash, led.position,
                                                    RefPrice(loop, event)))]
           /\ threads' = [threads EXCEPT
                             ![w].pc = loopNext(threads[w].i, Len(SeriesOf(loop))).pc,
                             ![w].i = loopNext(threads[w].i, Len(SeriesOf(loop))).i,
                             ![w].log = Append(@, <<"recordPnL", threads[w].i>>)]
    /\ UNCHANGED <<data, quoteData, mainPc, verbose, globalPrintMutex, terminated,
                   omVars, aggVars, barVars, metricVars, statsVars>>

\* Every order of a sequence executed.
RECURSIVE executeAll(_, _)
executeAll(om, os) ==
    IF os = <<>> THEN om ELSE executeAll(execute(om, Head(os)), Tail(os))

\* The worker executing, after onEnd, the orders still pending.
workerOnEnd_FillsPending(w) ==
    /\ ~terminated
    /\ threads[w].pc = "onEnd"
    /\ LET c == ctx(w)
           led == strategies[c].orderManager
           om == executeAll(OM(led.cash, led.position, led.execCount), led.pendingOrders)
       IN  strategies' = [strategies EXCEPT ![c].orderManager =
                             Ledger(om.cash, om.position, <<>>, om.execCount)]
    /\ threads' = [threads EXCEPT ![w].pc = "computeStats",
                                  ![w].log = Append(@, <<"onEnd", 0>>)]
    /\ UNCHANGED <<data, quoteData, mainPc, verbose, globalPrintMutex, terminated,
                   omVars, aggVars, barVars, metricVars, statsVars>>

\* The worker lambda: ctx->strategy->onEnd().  The strategy may submit orders
\* through its orderManager pointer.
workerOnEnd(w) ==
    /\ ~terminated
    /\ threads[w].pc = "onEnd"
    /\ LET c == ctx(w)
       IN  \E os \in StrategyEndOrders(strategies[c].kind,
                                       strategies[c].orderManager.position) :
              /\ os # <<>> => strategies[c].strategyOM # nullopt
              /\ strategies' =
                     IF os = <<>> THEN strategies
                     ELSE [strategies EXCEPT ![strategies[c].strategyOM[1]].orderManager =
                                                 submitAll(@, os)]
              /\ threads' = [threads EXCEPT ![w].pc = "computeStats",
                                            ![w].log = Append(@, <<"onEnd", 0>>),
                                            ![w].submitted = Append(@, os)]
    /\ UNCHANGED <<data, quoteData, mainPc, verbose, globalPrintMutex, terminated,
                   omVars, aggVars, barVars, metricVars, statsVars>>

\* The worker lambda: auto stats = ctx->statistics.computeStats(), and the
\* test on verbose.
workerComputeStats(w) ==
    /\ ~terminated
    /\ threads[w].pc = "computeStats"
    /\ threads' = [threads EXCEPT
                      ![w].pc = IF verbose THEN "reportLock" ELSE "return",
                      ![w].stats = Some(computeStats(strategies[ctx(w)].statistics).results),
                      ![w].log = Append(@, <<"computeStats", 0>>)]
    /\ UNCHANGED <<data, quoteData, strategies, mainPc, verbose, globalPrintMutex,
                   terminated, omVars, aggVars, barVars, metricVars, statsVars>>

\* The worker lambda: the CSV export if requested, and the return.
workerReturn(w) ==
    /\ ~terminated
    /\ threads[w].pc = "return"
    /\ threads' = [threads EXCEPT ![w].pc = "finished"]
    /\ UNCHANGED <<data, quoteData, strategies, mainPc, verbose, globalPrintMutex,
                   terminated, omVars, aggVars, barVars, metricVars, statsVars>>

\* A step of the worker of strategies[w].
workerStep(w) ==
    \/ workerOnStart(w)
    \/ workerDispatch(w)
    \/ workerOnTick(w)
    \/ workerLock(w)
    \/ workerCout(w)
    \/ workerHandleTick(w)
    \/ workerRecordPnL(w)
    \/ workerOnEnd(w)
    \/ workerComputeStats(w)
    \/ workerReturn(w)

\* -------------------------------------------------------------- BarStrategy
\* BarStrategy::BarStrategy(windowSize): the private aggregator, by its
\* fields.  ticks are the ticks passed to onTick so far, inBar the indices in
\* ticks of those aggregated into the aggregator's in-progress bar, onBar the
\* calls of onBar made so far (the bar, and the indices of the ticks
\* aggregated into it), ended whether onEnd was called (instrumentation).
NewBarStrategy(ws) ==
    [windowSize |-> ws, currentWindow |-> 0, currentBar |-> nullopt,
     ticks |-> <<>>, inBar |-> {}, onBar |-> <<>>, ended |-> FALSE]

\* BarStrategy::onTick: auto bar = aggregator.update(tick), and onBar(bar.value())
\* if it has a value.
barOnTick(tick) ==
    /\ ~barStrategy.ended
    /\ Len(barStrategy.ticks) < MaxEvents
    /\ LET r == update(barStrategy.windowSize, barStrategy.currentWindow,
                       barStrategy.currentBar, tick)
           j == Len(barStrategy.ticks) + 1
       IN  barStrategy' =
               [barStrategy EXCEPT
                    !.currentBar = r.currentBar,
                    !.currentWindow = r.currentWindow,
                    !.ticks = Append(@, tick),
                    !.inBar = IF r.ret # nullopt \/ barStrategy.currentBar = nullopt
                              THEN {j} ELSE @ \cup {j},
                    !.onBar = IF r.ret # nullopt
                              THEN Append(@, [bar |-> r.ret[1], ticks |-> barStrategy.inBar])
                              ELSE @]
    /\ UNCHANGED <<omVars, aggVars, statsVars, engineVars, metricVars>>

\* Strategy::onEnd, which BarStrategy does not override: an empty body.  The
\* aggregator is a private member of BarStrategy, so an override in a derived
\* class cannot call its flush either.
barOnEnd ==
    /\ ~barStrategy.ended
    /\ barStrategy' = [barStrategy EXCEPT !.ended = TRUE]
    /\ UNCHANGED <<omVars, aggVars, statsVars, engineVars, metricVars>>

\* ---------------------------------------------------------- specifications
NextLedger ==
    \/ \E o \in OrderInputs : submit(o)
    \/ \E tick \in Ticks : handleTick(tick)
    \/ \E quote \in QuoteTicks : handleQuoteTick(quote)
    \/ \E p \in Prices : callGetPnL(p)

\* The ledger under any sequence of calls (the aggregator is not used).
InitLedger ==
    /\ InitOrderManager /\ InitBarAggregator /\ windowSize = 60 /\ InitStatsCollector
    /\ InitEngine
    /\ barStrategy = NewBarStrategy(60)
    /\ statsEnv = NewStatsEnv

SpecLedger == InitLedger /\ [][NextLedger]_vars

\* The aggregator under any sequence of calls (the ledger is not used).
InitAgg ==
    /\ InitBarAggregator /\ InitOrderManager /\ initialCash = 10000 /\ InitStatsCollector
    /\ InitEngine
    /\ barStrategy = NewBarStrategy(60)
    /\ statsEnv = NewStatsEnv

NextAgg ==
    \/ \E tick \in BarTicks : callUpdate(tick)
    \/ callFlush

SpecAgg == InitAgg /\ [][NextAgg]_vars

\* The statistics collector under any sequence of calls (the ledger and the
\* aggregator are not used).
InitStats ==
    /\ InitStatsCollector
    /\ InitOrderManager /\ initialCash = 10000
    /\ InitBarAggregator /\ windowSize = 60
    /\ InitEngine
    /\ barStrategy = NewBarStrategy(60)
    /\ statsEnv = NewStatsEnv

NextStats ==
    \/ \E value \in PnLValues : callRecordPnL(value)
    \/ \E name \in UserStatNames, function \in UserFunctions : callAddStat(name, function)
    \/ callRegisterUserStats
    \/ callComputeStats

SpecStats == InitStats /\ [][NextStats]_vars

\* The engine driven by main: data and strategies are set, then runAll runs
\* the workers (the ledger, aggregator and collector variables are not used:
\* each context holds its own ledger and collector).
InitEngineRun ==
    /\ InitEngine
    /\ InitOrderManager /\ initialCash = 10000
    /\ InitBarAggregator /\ windowSize = 60
    /\ InitStatsCollector
    /\ barStrategy = NewBarStrategy(60)
    /\ statsEnv = NewStatsEnv

NextEngine ==
    \/ \E n \in 0..MaxSeries : setTickData(n)
    \/ \E n \in 0..MaxSeries : setQuoteTickData(n)
    \/ \E kind \in StrategyKinds, initCash \in EngineCashes : addStrategy(kind, initCash)
    \/ \E v \in BOOLEAN : runAll(v)
    \/ runAllBind
    \/ runAllRegister
    \/ runAllLaunch
    \/ runAllJoin
    \/ mainLock
    \/ mainCout
    \/ \E w \in 1..Len(threads) : workerOnStart(w)
    \/ \E w \in 1..Len(threads) : workerDispatch(w)
    \/ \E w \in 1..Len(threads) : workerOnTick(w)
    \/ \E w \in 1..Len(threads) : workerLock(w)
    \/ \E w \in 1..Len(threads) : workerCout(w)
    \/ \E w \in 1..Len(threads) : workerHandleTick(w)
    \/ \E w \in 1..Len(threads) : workerRecordPnL(w)
    \/ \E w \in 1..Len(threads) : workerOnEnd(w)
    \/ \E w \in 1..Len(threads) : workerComputeStats(w)
    \/ \E w \in 1..Len(threads) : workerReturn(w)

SpecEngine == InitEngineRun /\ [][NextEngine]_vars

\* A BarStrategy given any sequence of ticks and then onEnd (the other
\* components are not used).
InitBar ==
    /\ \E ws \in WindowSizes : barStrategy = NewBarStrategy(ws)
    /\ statsEnv = NewStatsEnv
    /\ InitOrderManager /\ initialCash = 10000
    /\ InitBarAggregator /\ windowSize = 60
    /\ InitStatsCollector
    /\ InitEngine

NextBar ==
    \/ \E tick \in BarTicks : barOnTick(tick)
    \/ barOnEnd

SpecBarStrategy == InitBar /\ [][NextBar]_vars

\* A collector with the standard statistics: registerUserStats once, any
\* sequence of recordPnL and computeStats calls (the other components are not
\* used).
InitStandardStats ==
    /\ InitStatsCollector
    /\ statsEnv = NewStatsEnv
    /\ InitOrderManager /\ initialCash = 10000
    /\ InitBarAggregator /\ windowSize = 60
    /\ InitEngine
    /\ barStrategy = NewBarStrategy(60)

NextStandardStats ==
    \/ \E tf \in TimeFrames, rf \in RiskFreeRates : statsRegister(tf, rf)
    \/ \E value \in MetricValues : statsRecordPnL(value)
    \/ statsCompute

SpecStandardStats == InitStandardStats /\ [][NextStandardStats]_vars

\* The engine under fair scheduling, given series that are not empty and a
\* whole initial cash.  The operating system lets every thread that can take
\* a step take one eventually (weak fairness on the steps of each worker and
\* on the steps of the main thread inside runAll); nothing forces main to
\* call runAll, and std::mutex promises no fairness between waiting threads.
NextEngineFair ==
    \/ setTickData(MaxFairSeries)
    \/ setQuoteTickData(MaxFairSeries)
    \/ \E kind \in StrategyKinds : addStrategy(kind, [units |-> 10000, halves |-> 0])
    \/ \E v \in BOOLEAN : runAll(v)
    \/ runAllBind
    \/ runAllRegister
    \/ runAllLaunch
    \/ runAllJoin
    \/ mainLock
    \/ mainCout
    \/ \E w \in 1..Len(threads) : workerOnStart(w)
    \/ \E w \in 1..Len(threads) : workerDispatch(w)
    \/ \E w \in 1..Len(threads) : workerOnTick(w)
    \/ \E w \in 1..Len(threads) : workerLock(w)
    \/ \E w \in 1..Len(threads) : workerCout(w)
    \/ \E w \in 1..Len(threads) : workerHandleTick(w)
    \/ \E w \in 1..Len(threads) : workerRecordPnL(w)
    \/ \E w \in 1..Len(threads) : workerOnEnd(w)
    \/ \E w \in 1..Len(threads) : workerComputeStats(w)
    \/ \E w \in 1..Len(threads) : workerReturn(w)

\* An engine with one strategy on which runAll is called again each time it
\* has returned, given series of MaxSeries events each.
NextEngineRerun ==
    \/ setTickData(MaxSeries)
    \/ setQuoteTickData(MaxSeries)
    \/ \E kind \in StrategyKinds :
           strategies = <<>> /\ addStrategy(kind, [units |-> 10000, halves |-> 0])
    \/ \E v \in BOOLEAN : runAll(v)
    \/ \E v \in BOOLEAN : runAllAgain(v)
    \/ runAllBind
    \/ runAllRegister
    \/ runAllLaunch
    \/ runAllJoin
    \/ \E w \in 1..Len(threads) : workerOnStart(w)
    \/ \E w \in 1..Len(threads) : workerDispatch(w)
    \/ \E w \in 1..Len(threads) : workerOnTick(w)
    \/ \E w \in 1..Len(threads) : workerLock(w)
    \/ \E w \in 1..Len(threads) : workerCout(w)
    \/ \E w \in 1..Len(threads) : workerHandleTick(w)
    \/ \E w \in 1..Len(threads) : workerRecordPnL(w)
    \/ \E w \in 1..Len(threads) : workerOnEnd(w)
    \/ \E w \in 1..Len(threads) : workerComputeStats(w)
    \/ \E w \in 1..Len(threads) : workerReturn(w)

SpecEngineRerun == InitEngineRun /\ [][NextEngineRerun]_vars

\* A step of the main thread inside runAll.
runAllStep == runAllBind \/ runAllRegister \/ runAllLaunch \/ runAllJoin

SpecEngineFair ==
    /\ InitEngineRun
    /\ [][NextEngineFair]_vars
    /\ WF_vars(runAllStep)
    /\ \A w \in 1..Len(StrategyNames) : WF_vars(w \in 1..Len(threads) /\ workerStep(w))

\* ------------------------------------------------- claims about the ledger
\* The cash an execution of order o adds (negative for a BUY).
CashDelta(o) == IF o.side = "BUY" THEN 0 - o.volume * o.price ELSE o.volume * o.price
\* The position an execution of order o adds (negative for a SELL).
PositionDelta(o) == IF o.side = "BUY" THEN o.volume ELSE 0 - o.volume

\* Sum of f[i] over the indices i of the sequence f that are in S.
RECURSIVE SumOver(_, _)
SumOver(f, S) ==
    IF S = {} THEN 0
    ELSE LET i == CHOOSE j \in S : TRUE IN f[i] + SumOver(f, S \ {i})

\* Over the executed orders of one side (an order executed n times counts n
\* times): the sum of volume * price, and the sum of the volumes.
ExecutedNotional(side) ==
    SumOver([i \in 1..Len(orders) |-> execCount[i] * orders[i].volume * orders[i].price],
            {i \in 1..Len(orders) : orders[i].side = side})
ExecutedVolume(side) ==
    SumOver([i \in 1..Len(orders) |-> execCount[i] * orders[i].volume],
            {i \in 1..Len(orders) : orders[i].side = side})

\* The end-to-end example of the specification.
BuyThenSell ==
    <<[side |-> "BUY", type |-> "MARKET", volume |-> 1, price |-> 100, id |-> 1],
      [side |-> "SELL", type |-> "MARKET", volume |-> 1, price |-> 110, id |-> 2]>>

\* C1: money conservation.  In every reachable state, cash - initialCash is
\* the notional of the executed SELL orders minus that of the executed BUY
\* orders, and position is the executed BUY volume minus the executed SELL
\* volume; after Buy Market 1@100 and Sell Market 1@110 on a ledger with
\* 10000 of cash, getPnL(p) = 10010 for every reference price p.
C1_MoneyConservation ==
    /\ cash - initialCash = ExecutedNotional("SELL") - ExecutedNotional("BUY")
    /\ position = ExecutedVolume("BUY") - ExecutedVolume("SELL")
    /\ (initialCash = 10000 /\ orders = BuyThenSell)
          => /\ \A p \in Prices \cup {0, 1, 5000} : getPnL(cash, position, p) = 10010
             /\ pnl \in {nullopt, Some(10010)}

C1_Witness ==
    /\ initialCash = 10000
    /\ orders = BuyThenSell
    /\ lastOp = "getPnL"
    /\ pnl = Some(10010)

\* The order record submit(o) builds when it is called in the current state.
Submitted(o) ==
    [side |-> o.side, type |-> o.type, volume |-> o.volume, price |-> o.price,
     id |-> Len(orders) + 1]

\* C2: submit executes a MARKET order inside the call (one execution, cash and
\* position changed by the order's volume and price, nothing added to the
\* pending orders), and appends a LIMIT order to the pending orders, leaving
\* cash and position unchanged and executing nothing.
C2_SubmitMarketNowLimitPending ==
    [][lastOp' = "submit" => \A o \in OrderInputs : submit(o) =>
          IF o.type = "MARKET"
          THEN /\ execCount' = Append(execCount, 1)
               /\ cash' = cash + CashDelta(o)
               /\ position' = position + PositionDelta(o)
               /\ pendingOrders' = pendingOrders
          ELSE /\ execCount' = Append(execCount, 0)
               /\ cash' = cash
               /\ position' = position
               /\ pendingOrders' = Append(pendingOrders, Submitted(o))]_vars

C2_Witness ==
    /\ lastOp = "submit"
    /\ Len(orders) = 2
    /\ orders[1].type = "LIMIT"
    /\ orders[2].type = "MARKET"
    /\ execCount = <<0, 1>>
    /\ pendingOrders = <<orders[1]>>

\* The ids of the orders pending in the current state.
PendingIds == {pendingOrders[k].id : k \in 1..Len(pendingOrders)}
\* Order id is executed by the step.
FilledNow(id) == execCount'[id] = execCount[id] + 1
\* Order id is not executed by the step.
NotFilledNow(id) == execCount'[id] = execCount[id]

\* C3: in a handleTick(const Tick&) call every pending BUY order is executed
\* if and only if tick.price <= order.price, every pending SELL order if and
\* only if tick.price >= order.price; all of them in that one call, and an
\* order that is not executed is not touched.
C3_TradeFillsIff ==
    [][lastOp' = "handleTick" => \A tick \in Ticks : handleTick(tick) =>
          \A k \in 1..Len(pendingOrders) :
              LET o == pendingOrders[k]
                  qualifies == IF o.side = "BUY" THEN tick.price <= o.price
                                                 ELSE tick.price >= o.price
              IN  IF qualifies THEN FilledNow(o.id) ELSE NotFilledNow(o.id)]_vars

C3_Witness ==
    /\ lastOp = "handleTick"
    /\ Len(orders) = 2
    /\ orders[1].type = "LIMIT" /\ orders[1].side = "BUY"
    /\ orders[2].type = "LIMIT" /\ orders[2].side = "BUY"
    /\ execCount = <<0, 1>>
    /\ pendingOrders = <<orders[1]>>

\* C4: in a handleTick(const QuoteTick&) call every pending BUY order is
\* executed if and only if order.price >= quote.ask, every pending SELL order
\* if and only if order.price <= quote.bid; so a pending Buy Limit at 101 is
\* executed by a quote with ask <= 101 and stays pending, unexecuted, on a
\* quote with ask > 101.
C4_QuoteFillsIff ==
    [][lastOp' = "handleQuoteTick" => \A quote \in QuoteTicks : handleQuoteTick(quote) =>
          \A k \in 1..Len(pendingOrders) :
              LET o == pendingOrders[k]
                  qualifies == IF o.side = "BUY" THEN o.price >= quote.ask
                                                 ELSE o.price <= quote.bid
              IN  /\ IF qualifies THEN FilledNow(o.id) ELSE NotFilledNow(o.id)
                  /\ (o.side = "BUY" /\ o.type = "LIMIT" /\ o.price = 101) =>
                        /\ quote.ask <= 101 => FilledNow(o.id) /\ o.id \notin PendingIds'
                        /\ quote.ask > 101 => NotFilledNow(o.id) /\ o.id \in PendingIds']_vars

C4_Witness ==
    /\ lastOp = "handleQuoteTick"
    /\ Len(orders) = 2
    /\ orders[1].type = "LIMIT" /\ orders[1].side = "BUY" /\ orders[1].price = 101
    /\ orders[2].type = "LIMIT" /\ orders[2].side = "SELL"
    /\ execCount = <<1, 0>>
    /\ pendingOrders = <<orders[2]>>

\* The step is a match call: handleTick on a trade tick or on a quote tick.
MatchStep ==
    \/ lastOp' = "handleTick" /\ \E tick \in Ticks : handleTick(tick)
    \/ lastOp' = "handleQuoteTick" /\ \E quote \in QuoteTicks : handleQuoteTick(quote)

\* The number of entries of the pending orders that hold order id.
PendingCopies(id) == Cardinality({k \in 1..Len(pendingOrders) : pendingOrders[k].id = id})

\* C5: a LIMIT order is executed at most once.  In every state a LIMIT order
\* is either pending (one entry) and never executed, or executed once and not
\* pending; a match call removes from the pending orders exactly the orders
\* it executes, each executed once and in full (position and cash move by the
\* whole volume of the executed orders); an executed order is never executed
\* again by any later call.
C5_LimitExecutedAtMostOnce ==
    /\ [](\A i \in 1..Len(orders) : orders[i].type = "LIMIT" =>
             \/ execCount[i] = 0 /\ PendingCopies(i) = 1
             \/ execCount[i] = 1 /\ PendingCopies(i) = 0)
    /\ [][/\ MatchStep =>
               LET filled == {i \in PendingIds : i \notin PendingIds'}
               IN  /\ \A i \in PendingIds : IF i \in filled THEN FilledNow(i)
                                                            ELSE NotFilledNow(i)
                   /\ position' - position =
                         SumOver([i \in 1..Len(orders) |-> PositionDelta(orders[i])], filled)
                   /\ cash' - cash =
                         SumOver([i \in 1..Len(orders) |-> CashDelta(orders[i])], filled)
          /\ \A i \in 1..Len(orders) :
               (orders[i].type = "LIMIT" /\ execCount[i] = 1) => execCount'[i] = 1]_vars

\* Both LIMIT orders were executed, by different calls or the same one, and a
\* later trade tick that would qualify again has been handled.
C5_Witness ==
    /\ lastOp = "handleTick"
    /\ Len(orders) = 2
    /\ orders[1].type = "LIMIT" /\ orders[2].type = "LIMIT"
    /\ orders[1].volume = 2
    /\ execCount = <<1, 1>>
    /\ pendingOrders = <<>>
    /\ position = PositionDelta(orders[1]) + PositionDelta(orders[2])

\* C6: getPnL(lastPrice) returns cash + position * lastPrice of the current
\* state and changes neither cash, nor position, nor the pending orders.
C6_ValuationPure ==
    [][lastOp' = "getPnL" => \A p \in Prices : callGetPnL(p) =>
          /\ pnl' = Some(cash + position * p)
          /\ cash' = cash
          /\ position' = position
          /\ pendingOrders' = pendingOrders]_vars

C6_Witness ==
    /\ lastOp = "getPnL"
    /\ position = 2
    /\ pendingOrders # <<>>
    /\ pnl = Some(cash + 2 * 110)

\* The pending orders a trade tick (a quote tick) qualifies.
TradeQualifying(tick) ==
    {pendingOrders[k].id : k \in {j \in 1..Len(pendingOrders) :
        IF pendingOrders[j].side = "BUY" THEN tick.price <= pendingOrders[j].price
                                         ELSE tick.price >= pendingOrders[j].price}}
QuoteQualifying(quote) ==
    {pendingOrders[k].id : k \in {j \in 1..Len(pendingOrders) :
        IF pendingOrders[j].side = "BUY" THEN pendingOrders[j].price >= quote.ask
                                         ELSE pendingOrders[j].price <= quote.bid}}
\* The cash and position after executing the orders ids in full.
CashAfter(ids) == cash + SumOver([i \in 1..Len(orders) |-> CashDelta(orders[i])], ids)
PositionAfter(ids) ==
    position + SumOver([i \in 1..Len(orders) |-> PositionDelta(orders[i])], ids)

\* C7: no order is rejected or altered for lack of cash or of position.  A
\* submit call is possible in every state, whatever cash and position are
\* (as long as the model's bound on the number of orders allows one more);
\* submit of a MARKET order and a match call apply the full delta of the
\* order, respectively of every qualifying pending order, also when the
\* resulting cash or position is negative.
C7_NoFundsCheck ==
    /\ [](Len(orders) < MaxOrders => \A o \in OrderInputs : ENABLED submit(o))
    /\ [][/\ lastOp' = "submit" =>
                \A o \in OrderInputs : (o.type = "MARKET" /\ submit(o)) =>
                    /\ cash' = cash + CashDelta(o)
                    /\ position' = position + PositionDelta(o)
          /\ lastOp' = "handleTick" =>
                \A tick \in Ticks : handleTick(tick) =>
                    /\ cash' = CashAfter(TradeQualifying(tick))
                    /\ position' = PositionAfter(TradeQualifying(tick))
          /\ lastOp' = "handleQuoteTick" =>
                \A quote \in QuoteTicks : handleQuoteTick(quote) =>
                    /\ cash' = CashAfter(QuoteQualifying(quote))
                    /\ position' = PositionAfter(QuoteQualifying(quote))]_vars

\* A MARKET BUY overdrew the cash, and a pending BUY was filled all the same.
C7_Witness ==
    /\ lastOp \in {"handleTick", "handleQuoteTick"}
    /\ Len(orders) = 2
    /\ orders[1].type = "MARKET" /\ orders[1].side = "BUY"
    /\ orders[2].type = "LIMIT" /\ orders[2].side = "BUY"
    /\ execCount = <<1, 1>>
    /\ initialCash + CashDelta(orders[1]) < 0
    /\ cash = initialCash + CashDelta(orders[1]) + CashDelta(orders[2])

\* --------------------------------------------- claims about the aggregator
\* The open, high, low, close and volume of a bar.
OHLCV(bar) == [open |-> bar.open, high |-> bar.high, low |-> bar.low,
               close |-> bar.close, volume |-> bar.volume]

\* C8: the aggregator's state machine.  update(tick) returns a bar if and
\* only if there is an in-progress bar and floor(timestamp / windowSize) *
\* windowSize differs from its start; the bar returned is the in-progress bar
\* of before the call, and the new in-progress bar has open = high = low =
\* close = tick.price and volume = tick.volume.  The first update of an empty
\* aggregator returns nothing and leaves an in-progress bar (seeded the same
\* way); no call ever leaves an aggregator that had a bar without one.
C8_AggregatorStateMachine ==
    [][/\ aggOp' = "update" => \A tick \in BarTicks : callUpdate(tick) =>
             LET w == (tick.timestamp \div windowSize) * windowSize
                 seeded == [open |-> tick.price, high |-> tick.price, low |-> tick.price,
                            close |-> tick.price, volume |-> tick.volume]
             IN  /\ completed' # nullopt <=>
                       (currentBar # nullopt /\ w # currentBar[1].startTimestamp)
                 /\ completed' # nullopt =>
                       /\ completed' = currentBar
                       /\ currentBar' # nullopt
                       /\ OHLCV(currentBar'[1]) = seeded
                 /\ currentBar = nullopt =>
                       /\ completed' = nullopt
                       /\ currentBar' # nullopt
                       /\ OHLCV(currentBar'[1]) = seeded
       /\ currentBar # nullopt => currentBar' # nullopt]_vars

\* An update has just sealed a bar that two ticks had built.
C8_Witness ==
    /\ aggOp = "update"
    /\ nUpdates = 3
    /\ Len(run) = 1
    /\ completed # nullopt
    /\ completed[1].volume > 2
    /\ currentBar # nullopt
    /\ currentBar[1].startTimestamp # completed[1].startTimestamp

\* The largest and the smallest price, and the total volume, of a non-empty
\* sequence of ticks.
RECURSIVE MaxPrice(_)
MaxPrice(ticks) ==
    IF Len(ticks) = 1 THEN ticks[1].price
    ELSE Max(ticks[1].price, MaxPrice(Tail(ticks)))
RECURSIVE MinPrice(_)
MinPrice(ticks) ==
    IF Len(ticks) = 1 THEN ticks[1].price
    ELSE Min(ticks[1].price, MinPrice(Tail(ticks)))
RECURSIVE TotalVolume(_)
TotalVolume(ticks) ==
    IF ticks = <<>> THEN 0 ELSE ticks[1].volume + TotalVolume(Tail(ticks))

\* What the bar of a run of ticks must be.
RunSummary(ticks) ==
    [open |-> ticks[1].price, high |-> MaxPrice(ticks), low |-> MinPrice(ticks),
     close |-> ticks[Len(ticks)].price, volume |-> TotalVolume(ticks)]

\* C9: window boundary.  The in-progress bar always summarises the current
\* run (the consecutive ticks of one window): open = first price, close =
\* last price, high = maximum, low = minimum, volume = sum; the bar an update
\* returns when it seals, and the bar flush returns, is that summary of the
\* run that ended (of the current run, for flush).  With windowSize = 60000
\* and ticks at 1000 (price 10), 59000 (price 12), 61000 (price 9) the three
\* updates return nothing, nothing, and the bar with open = 10, high = 12,
\* low = 10, close = 12 and the volume of the first two ticks.
C9_WindowBoundary ==
    /\ [](/\ currentBar = nullopt <=> run = <<>>
          /\ run # <<>> => OHLCV(currentBar[1]) = RunSummary(run))
    /\ [][/\ (aggOp' = "update" /\ completed' # nullopt) =>
                /\ run # <<>>
                /\ OHLCV(completed'[1]) = RunSummary(run)
          /\ (aggOp' = "flush" /\ completed' # nullopt) =>
                /\ run # <<>>
                /\ OHLCV(completed'[1]) = RunSummary(run)
          /\ (aggOp' = "update" /\ windowSize = 60000) =>
                /\ (nUpdates = 0 /\ run'[1].timestamp = 1000) => completed' = nullopt
                /\ (nUpdates = 1 /\ Len(run) = 1 /\ run[1].timestamp = 1000
                      /\ Len(run') = 2 /\ run'[2].timestamp = 59000) => completed' = nullopt
                /\ (nUpdates = 2 /\ Len(run) = 2
                      /\ run[1].timestamp = 1000 /\ run[1].price = 10
                      /\ run[2].timestamp = 59000 /\ run[2].price = 12
                      /\ run'[1].timestamp = 61000 /\ run'[1].price = 9) =>
                      /\ completed' # nullopt
                      /\ OHLCV(completed'[1]) =
                            [open |-> 10, high |-> 12, low |-> 10, close |-> 12,
                             volume |-> run[1].volume + run[2].volume]]_vars

\* The example of the specification: the third update has returned the bar.
C9_Witness ==
    /\ windowSize = 60000
    /\ aggOp = "update"
    /\ nUpdates = 3
    /\ run = <<[timestamp |-> 61000, price |-> 9, volume |-> 1]>>
    /\ completed = Some([startTimestamp |-> 0, endTimestamp |-> 60000, open |-> 10,
                         high |-> 12, low |-> 10, close |-> 12, volume |-> 3])
    /\ currentBar = Some([startTimestamp |-> 60000, endTimestamp |-> 120000, open |-> 9,
                          high |-> 9, low |-> 9, close |-> 9, volume |-> 1])

\* C10: flush does not change the aggregator.  A flush call returns the
\* in-progress bar (nothing on an empty aggregator) and leaves windowSize,
\* currentWindow and currentBar as they were, so that a flush right after a
\* flush returns what the first one returned, and update, on any tick, gives
\* after the flush the result it would have given before it.
C10_FlushIdempotent ==
    [][(aggOp' = "flush" /\ callFlush) =>
          /\ completed' = currentBar
          /\ windowSize' = windowSize
          /\ currentWindow' = currentWindow
          /\ currentBar' = currentBar
          /\ aggOp = "flush" => completed' = completed
          /\ \A tick \in BarTicks :
                update(windowSize', currentWindow', currentBar', tick)
                   = update(windowSize, currentWindow, currentBar, tick)]_vars

\* Two flush calls in a row on an aggregator that holds a bar.
C10_Witness ==
    /\ aggOp = "flush"
    /\ prevAggOp = "flush"
    /\ completed # nullopt
    /\ completed = currentBar
    /\ Len(run) = 2

\* ------------------------------------- claims about the statistics collector
\* C11: after any sequence of recordPnL calls the return series has
\* max(0, len(value series) - 1) entries; the first recordPnL appends a value
\* and no return, every later one appends exactly one value and one return.
C11_ReturnSeriesLength ==
    /\ [](Len(returnsSeries) = Max(0, Len(pnlSeries) - 1))
    /\ [][statsOp' = "recordPnL" =>
            \A value \in PnLValues : callRecordPnL(value) =>
                /\ pnlSeries' = Append(pnlSeries, value)
                /\ IF pnlSeries = <<>>
                   THEN returnsSeries' = returnsSeries /\ returnsSeries = <<>>
                   ELSE /\ Len(returnsSeries') = Len(returnsSeries) + 1
                        /\ SubSeq(returnsSeries', 1, Len(returnsSeries)) = returnsSeries]_vars
C11_Witness == Len(pnlSeries) = 3 /\ Len(returnsSeries) = 2

\* C12: the registry is first-write-wins: the function stored under a name is
\* the one of the first addStat call made with that name, an addStat call
\* with a name already registered changes nothing, and a name holds one
\* function.
C12_FirstWriteWins ==
    /\ [](/\ DOMAIN statsFunction = DOMAIN firstFunction
          /\ \A name \in DOMAIN statsFunction : statsFunction[name] = firstFunction[name])
    /\ [][statsOp' = "addStat" =>
            \A name \in UserStatNames, function \in UserFunctions :
                (callAddStat(name, function) /\ name \in DOMAIN statsFunction)
                    => statsFunction' = statsFunction]_vars
\* registerUserStats registered "Sharpe" after a user had: the user's stays.
C12_Witness ==
    /\ statsOp = "registerUserStats"
    /\ "Sharpe" \in DOMAIN statsFunction
    /\ statsFunction["Sharpe"] = [origin |-> "user", id |-> "g"]
    /\ "Sortino" \in DOMAIN statsFunction

\* C13: computeStats called with fewer than 2 recorded values returns an
\* empty map and invokes no registered function, whatever is registered.
C13_ComputeNeedsTwoValues ==
    (statsOp = "computeStats" /\ Len(pnlSeries) < 2) =>
        /\ results = Some(EmptyMap)
        /\ \A name \in DOMAIN statsFunction : calls[name] = 0
C13_Witness ==
    /\ statsOp = "computeStats"
    /\ Len(pnlSeries) = 1
    /\ DOMAIN statsFunction = StandardStatNames \cup {"X"}

\* C14: computeStats called with at least 2 recorded values invokes every
\* registered function exactly once and returns a map whose keys are exactly
\* the registered names; on a collector set up by registerUserStats alone, as
\* the engine sets up the collector of a run, the keys are exactly the six
\* standard names.
C14_ComputeInvokesEachOnce ==
    (statsOp = "computeStats" /\ Len(pnlSeries) >= 2) =>
        /\ results # nullopt
        /\ DOMAIN results[1] = DOMAIN statsFunction
        /\ DOMAIN calls = DOMAIN statsFunction
        /\ \A name \in DOMAIN statsFunction :
               calls[name] = 1 /\ results[1][name] = statsFunction[name]
        /\ (~userAdded /\ statsFunction # EmptyMap) =>
               DOMAIN results[1] = {"MeanReturn", "TotalReturn", "MaxDrawdown",
                                    "AnnualizedVolatility", "Sharpe", "Sortino"}
C14_Witness ==
    /\ statsOp = "computeStats"
    /\ Len(pnlSeries) = 2
    /\ ~userAdded
    /\ results # nullopt
    /\ DOMAIN results[1] = StandardStatNames

\* ------------------------------------------------- claims about the engine
\* The main thread is inside runAll.
InRunAll == mainPc.pc \in {"bind", "register", "launch", "join"}
\* runAll has returned to main.
RunAllReturned == mainPc.pc \in {"returned", "cout", "exit"}
\* The thread has left its function (it is waiting to be joined, or joined).
Terminated(thread) == thread.pc \in {"finished", "joined"}
\* The step is in the log.
InLog(thread, step) == \E j \in 1..Len(thread.log) : thread.log[j] = step

\* C15: runAll is a blocking barrier.  Whenever runAll has returned, every
\* worker it launched has terminated, with its onEnd and computeStats done;
\* it never returns while a worker is still running.
C15_RunAllBarrier ==
    RunAllReturned =>
        \A k \in 1..Len(threads) :
            /\ Terminated(threads[k])
            /\ InLog(threads[k], <<"onEnd", 0>>)
            /\ InLog(threads[k], <<"computeStats", 0>>)
            /\ threads[k].stats # nullopt
C15_Witness ==
    /\ mainPc.pc = "returned"
    /\ Len(threads) = 2
    /\ \A k \in 1..2 : threads[k].pc = "joined" /\ Len(threads[k].log) = 9

\* The steps of a worker over a series of n events, in order.
RECURSIVE EventSteps(_)
EventSteps(n) ==
    IF n = 0 THEN <<>>
    ELSE EventSteps(n - 1) \o <<<<"onTick", n>>, <<"handleTick", n>>, <<"recordPnL", n>>>>
ExpectedLog(n) ==
    <<<<"onStart", 0>>>> \o EventSteps(n) \o <<<<"onEnd", 0>>, <<"computeStats", 0>>>>
IsPrefix(s, t) == Len(s) <= Len(t) /\ SubSeq(t, 1, Len(s)) = s

\* C16: inside each worker the steps are strictly ordered: onStart once
\* before any event; for each event of the series, in series order, onTick,
\* then the ledger's handleTick, then recordPnL; onEnd once after the last
\* event; computeStats once after onEnd.  What a worker has done so far is
\* always a beginning of that sequence, and all of it once computeStats is done.
C16_WorkerStepOrder ==
    \A w \in 1..Len(threads) :
        LET n == Len(SeriesOf(strategies[w].kind))
        IN  /\ IsPrefix(threads[w].log, ExpectedLog(n))
            /\ threads[w].pc \in {"reportLock", "reportCout", "return", "finished", "joined"}
                   => threads[w].log = ExpectedLog(n)
            /\ threads[w].pc \in {"onTick", "printLock", "printCout", "handleTick",
                                  "recordPnL"}
                   => /\ threads[w].i \in 1..n
                      /\ Len(threads[w].log) \in (3 * threads[w].i - 2)..(3 * threads[w].i)
C16_Witness ==
    /\ Len(threads) = 2
    /\ threads[1].pc = "finished"
    /\ threads[1].log = <<<<"onStart", 0>>, <<"onTick", 1>>, <<"handleTick", 1>>,
                          <<"recordPnL", 1>>, <<"onTick", 2>>, <<"handleTick", 2>>,
                          <<"recordPnL", 2>>, <<"onEnd", 0>>, <<"computeStats", 0>>>>
    /\ threads[2].pc = "recordPnL"
    /\ threads[2].i = 1

\* C17: no data race across strategies.  In every interleaving a step of a
\* worker leaves every other strategy's context (ledger, collector) and
\* worker untouched; a context whose worker has been started is changed by
\* steps of that worker only; a strategy's orders go to its own ledger only;
\* and the trade and quote series do not change from the start of runAll to
\* its return.
C17_StrategyIsolation ==
    /\ [](\A k \in 1..Len(strategies) : strategies[k].strategyOM \in {nullopt, Some(k)})
    /\ [][/\ \A w \in 1..Len(threads) :
                workerStep(w) =>
                    \A v \in (1..Len(threads)) \ {w} :
                        strategies'[v] = strategies[v] /\ threads'[v] = threads[v]
          /\ InRunAll =>
                /\ data' = data
                /\ quoteData' = quoteData
                /\ Len(strategies') = Len(strategies)
                /\ \A k \in 1..Len(strategies) :
                      (strategies'[k] # strategies[k] /\ threads[k].pc # "notStarted")
                          => workerStep(k)]_vars
\* Two trade-based strategies over the same two ticks: the first bought on
\* both, the second on the second only; each ledger shows its own orders.
C17_Witness ==
    /\ Len(strategies) = 2
    /\ threads[1].pc = "finished" /\ threads[2].pc = "finished"
    /\ strategies[1].orderManager.position = 2
    /\ strategies[1].orderManager.cash = 10000 - 210
    /\ strategies[1].statistics.pnlSeries = <<10000, 10010>>
    /\ strategies[2].orderManager.position = 1
    /\ strategies[2].orderManager.cash = 10000 - 110
    /\ strategies[2].statistics.pnlSeries = <<10000, 10000>>

\* The threads that are at a console write: a worker inside a strategy's
\* trade message or inside the result report, the main thread (0) inside its
\* elapsed-time message.
Writers ==
    {w \in 1..Len(threads) : threads[w].pc \in {"printCout", "reportCout"}}
        \cup (IF mainPc.pc = "cout" THEN {0} ELSE {})

\* C18: console output is serialized.  In every interleaving at most one
\* thread at a time is writing to the console, and every thread that is
\* writing (a worker's report or trade message, main's message) holds
\* globalPrintMutex.
C18_OutputSerialized ==
    /\ Cardinality(Writers) <= 1
    /\ \A t \in Writers : globalPrintMutex = Some(t)
    /\ globalPrintMutex # nullopt => globalPrintMutex[1] \in Writers
\* One worker is writing its report while the other waits for the mutex to
\* print a trade message.
C18_Witness ==
    /\ Len(threads) = 2
    /\ threads[1].pc = "printLock"
    /\ threads[2].pc = "reportCout"
    /\ globalPrintMutex = Some(2)

\* The worker has evaluated the tests on quoteData and data.
PastDispatch(thread) == thread.pc \notin {"notStarted", "onStart", "dispatch"}

\* C19: missing data is fatal for every kind of strategy.  When the series of
\* the kind a strategy declares is empty when its worker runs, the process
\* is terminated and the worker does not go on to onEnd and computeStats.
C19_MissingDataFatal ==
    \A w \in 1..Len(threads) :
        (PastDispatch(threads[w]) /\ SeriesOf(strategies[w].kind) = <<>>)
            => /\ terminated
               /\ ~InLog(threads[w], <<"onEnd", 0>>)
               /\ ~InLog(threads[w], <<"computeStats", 0>>)

\* The strategy of the context is bound to the context's own ledger and the
\* six standard statistics are registered on the context's collector.
BoundAndRegistered(k) ==
    /\ strategies[k].strategyOM = Some(k)
    /\ DOMAIN strategies[k].statistics.statsFunction = StandardStatNames

\* C20 as stated: once addStrategy has returned, the strategy is bound to its
\* own fresh ledger and the standard statistics are registered on its fresh
\* collector.
C20_BoundWhenAdded ==
    \A k \in 1..Len(strategies) : BoundAndRegistered(k)

\* C20, amended: when addStrategy returns the context holds a fresh ledger
\* and a fresh collector, but the strategy is not bound and nothing is
\* registered; that stays so until runAll, which binds the strategy and
\* registers the standard statistics just before it starts the strategy's
\* worker.  In every case both are complete before the strategy's onStart or
\* first onTick runs.
C20_BoundBeforeLaunch ==
    /\ mainPc.pc = "setup" =>
          \A k \in 1..Len(strategies) :
              /\ strategies[k].strategyOM = nullopt
              /\ strategies[k].statistics = NewStatsCollector
              /\ strategies[k].orderManager.position = 0
              /\ strategies[k].orderManager.pendingOrders = <<>>
    /\ \A k \in 1..Len(strategies) :
          threads[k].pc # "notStarted" => BoundAndRegistered(k)
\* The first worker is in its first onTick, bound and registered, while the
\* second strategy, added before runAll, is still unbound with an empty
\* registry.
C20_Witness ==
    /\ Len(strategies) = 2
    /\ threads[1].pc = "onTick" /\ threads[1].i = 1
    /\ BoundAndRegistered(1)
    /\ threads[2].pc = "notStarted"
    /\ strategies[2].strategyOM = nullopt
    /\ strategies[2].statistics.statsFunction = EmptyMap

\* C21: the ledger of a strategy is seeded with exactly the initialCash given
\* to addStrategy.  As long as no order was submitted to it, its valuation
\* equals that initialCash at every reference price, also when the
\* initialCash is not a whole number (both sides are counted in halves).
C21_SeededWithInitialCash ==
    \A k \in 1..Len(strategies) :
        strategies[k].orderManager.execCount = <<>> =>
            \A p \in Prices :
                2 * getPnL(strategies[k].orderManager.cash,
                           strategies[k].orderManager.position, p)
                    = 2 * strategies[k].initialCash.units + strategies[k].initialCash.halves

\* The worker is past the match step on the last event of its series (or
\* found its series empty) and has not left its function yet.
PastLastMatch(w) ==
    \/ threads[w].pc \in {"onEnd", "computeStats", "reportLock", "reportCout", "return"}
    \/ /\ threads[w].pc = "recordPnL"
       /\ threads[w].i = Len(SeriesOf(strategies[w].kind))

\* C22: LIMIT orders still pending after the last event are never executed.
\* From the end of the match step on the last event until the worker
\* terminates, no step of the worker is a match, every pending order stays
\* pending and unexecuted, and cash and position change only in onEnd and
\* only by a MARKET order the strategy submits there; what is pending when
\* the worker has terminated was never executed.
C22_PendingAtEndNeverExecuted ==
    /\ [](\A w \in 1..Len(threads) :
             Terminated(threads[w]) =>
                 \A j \in 1..Len(strategies[w].orderManager.pendingOrders) :
                     strategies[w].orderManager.execCount[
                         strategies[w].orderManager.pendingOrders[j].id] = 0)
    /\ [][\A w \in 1..Len(threads) :
             (PastLastMatch(w) /\ threads'[w] # threads[w]) =>
                 LET led == strategies[w].orderManager
                     led2 == strategies'[w].orderManager
                 IN  /\ Len(threads'[w].log) > Len(threads[w].log) =>
                            threads'[w].log[Len(threads'[w].log)][1] # "handleTick"
                     /\ led2.pendingOrders = led.pendingOrders
                     /\ SubSeq(led2.execCount, 1, Len(led.execCount)) = led.execCount
                     /\ (led2.cash # led.cash \/ led2.position # led.position) =>
                            /\ threads[w].pc = "onEnd"
                            /\ Len(led2.execCount) = Len(led.execCount) + 1
                            /\ led2.execCount[Len(led2.execCount)] = 1]_vars
\* A quote-based worker has terminated: its first LIMIT BUY was filled on the
\* event it was submitted on, its second one is still pending and was never
\* executed, and a MARKET SELL submitted in onEnd closed the position.
C22_Witness ==
    /\ Len(threads) >= 1
    /\ threads[1].pc = "finished"
    /\ strategies[1].kind = "quote"
    /\ Len(strategies[1].orderManager.pendingOrders) = 1
    /\ strategies[1].orderManager.execCount = <<1, 0, 1>>
    /\ strategies[1].orderManager.position = 0
    /\ strategies[1].orderManager.cash = 10000

\* C23: dispatch by declared kind, decided once per run.  The loop a worker
\* enters is the one of its strategy's kind; the events it passes to onTick
\* and to the ledger's handleTick are, in order, those of the series of that
\* kind (never one of the other series), and all of them once the loop is
\* left.
C23_DispatchByKind ==
    \A w \in 1..Len(threads) :
        LET series == SeriesOf(strategies[w].kind)
        IN  /\ threads[w].loop \in {"none", strategies[w].kind}
            /\ IsPrefix(threads[w].delivered, series)
            /\ IsPrefix(threads[w].matched, series)
            /\ Len(threads[w].matched) \in {Len(threads[w].delivered),
                                           Len(threads[w].delivered) - 1}
            /\ threads[w].pc \in {"onEnd", "computeStats", "reportLock", "reportCout",
                                  "return", "finished", "joined"}
                   => threads[w].delivered = series /\ threads[w].matched = series
\* A quote-based and a trade-based worker have both run over two events.
C23_Witness ==
    /\ Len(threads) = 2
    /\ strategies[1].kind = "quote" /\ strategies[2].kind = "trade"
    /\ threads[1].pc = "finished" /\ threads[2].pc = "finished"
    /\ threads[1].matched = <<[bid |-> 100, ask |-> 100], [bid |-> 100, ask |-> 102]>>
    /\ threads[2].matched = <<[price |-> 100], [price |-> 110]>>
    /\ threads[1].loop = "quote" /\ threads[2].loop = "trade"

\* The bar's window is aligned and of length ws, and its prices are ordered.
WellFormedBar(bar, ws) ==
    /\ bar.startTimestamp % ws = 0
    /\ bar.endTimestamp = bar.startTimestamp + ws
    /\ bar.low <= bar.open /\ bar.open <= bar.high
    /\ bar.low <= bar.close /\ bar.close <= bar.high
\* Every tick of the sequence lies in the bar's window, which is the one
\* computed from its timestamp.
WindowOfAll(bar, ticks, ws) ==
    \A j \in 1..Len(ticks) :
        /\ bar.startTimestamp = (ticks[j].timestamp \div ws) * ws
        /\ bar.startTimestamp <= ticks[j].timestamp
        /\ ticks[j].timestamp < bar.endTimestamp

\* C30: bar well-formedness.  An in-progress bar is well formed, its window
\* is the window of every tick aggregated into it (run, which is then not
\* empty), and currentWindow is its startTimestamp; every bar returned by
\* update or flush is well formed, and is the bar that was in progress when
\* the call was made.
C30_BarWellFormed ==
    /\ [](currentBar # nullopt =>
              /\ WellFormedBar(currentBar[1], windowSize)
              /\ run # <<>>
              /\ WindowOfAll(currentBar[1], run, windowSize)
              /\ currentWindow = currentBar[1].startTimestamp)
    /\ [](completed # nullopt => WellFormedBar(completed[1], windowSize))
    /\ [][completed' # nullopt => completed' = currentBar]_vars
\* With one-minute windows, update has returned a bar whose high is above its
\* low and has opened the bar of the window starting at 60000.
C30_Witness ==
    /\ windowSize = 60000
    /\ aggOp = "update"
    /\ completed # nullopt
    /\ completed[1].startTimestamp = 0
    /\ completed[1].low < completed[1].high
    /\ currentBar # nullopt
    /\ currentBar[1].startTimestamp = 60000
    /\ currentWindow = 60000

\* ---------------------------------------------- claims about BarStrategy
\* C29: at the end of the event stream the final partial bar is retrieved
\* with flush(): once a bar-based strategy has been given its last event and
\* onEnd was called, every tick passed to its onTick is among the ticks of
\* some bar that was passed to onBar, those of the last window included.
C29_EveryEventReachesOnBar ==
    barStrategy.ended =>
        \A j \in 1..Len(barStrategy.ticks) :
            \E c \in 1..Len(barStrategy.onBar) : j \in barStrategy.onBar[c].ticks

\* ------------------------------------------- claims about the engine, cont.
\* Both series hold events.
BothSeriesGiven == data # <<>> /\ quoteData # <<>>
\* The worker is waiting for globalPrintMutex.
WaitsForMutex(w) == w \in 1..Len(threads) /\ threads[w].pc \in {"printLock", "reportLock"}

\* C24: termination.  When both series are non-empty, under fair scheduling
\* a runAll call eventually returns, with every worker terminated; and a
\* worker that waits for globalPrintMutex eventually gets it (no worker
\* waits from some point on forever).
C24_Termination ==
    /\ (InRunAll /\ BothSeriesGiven)
           ~> (RunAllReturned /\ \A k \in 1..Len(threads) : Terminated(threads[k]))
    /\ \A w \in 1..Len(StrategyNames) :
           []<>~(WaitsForMutex(w) /\ BothSeriesGiven)
\* runAll has returned after two workers that both printed a trade message
\* and their report.
C24_Witness ==
    /\ mainPc.pc = "exit"
    /\ verbose
    /\ BothSeriesGiven
    /\ Len(threads) = 2
    /\ \A k \in 1..2 : threads[k].pc = "joined"
                       /\ strategies[k].orderManager.execCount # <<>>

\* One strategy run alone and sequentially over a series: for each event in
\* turn the orders the strategy sent on it, the match, the valuation.
RECURSIVE SoloLoop(_, _, _, _, _)
SoloLoop(st, kind, series, sub, i) ==
    IF i > Len(series) THEN st
    ELSE LET led1 == submitAll(st.orderManager, sub[i])
             led2 == IF kind = "quote" THEN ledgerHandleQuote(led1, series[i])
                     ELSE ledgerHandleTick(led1, series[i])
             sc == recordPnL(st.statistics,
                             getPnL(led2.cash, led2.position, RefPrice(kind, series[i])))
         IN  SoloLoop([orderManager |-> led2, statistics |-> sc], kind, series, sub, i + 1)
\* The results of that run, the orders of onEnd being the last entry of sub.
SoloRun(kind, initCash, series, sub) ==
    LET st == SoloLoop([orderManager |-> NewLedger(intOf(initCash)),
                        statistics |-> registerUserStats(NewStatsCollector)],
                       kind, series, sub, 1)
    IN  [orderManager |-> submitAll(st.orderManager, sub[Len(series) + 1]),
         statistics |-> st.statistics,
         stats |-> Some(computeStats(st.statistics).results)]

TradeStaying(tick) == SelectSeq(pendingOrders, LAMBDA o : ~tickExecutes(o, tick))
QuoteStaying(quote) == SelectSeq(pendingOrders, LAMBDA o : ~quoteExecutes(o, quote))
\* The step leaves the orders of stay pending, with their fields, in that
\* order and not executed, and changes nothing if stay is all there was.
KeepsPending(stay) ==
    /\ pendingOrders' = stay
    /\ \A j \in 1..Len(stay) : execCount'[stay[j].id] = execCount[stay[j].id]
    /\ stay = pendingOrders =>
           cash' = cash /\ position' = position /\ pendingOrders' = pendingOrders

\* C26: a match call keeps every pending order that does not qualify, with
\* unchanged fields and in the same relative order; when no pending order
\* qualifies, cash, position and the pending collection are unchanged.
C26_MatchKeepsNonQualifying ==
    [][/\ lastOp' = "handleTick" =>
              \A tick \in Ticks : handleTick(tick) => KeepsPending(TradeStaying(tick))
       /\ lastOp' = "handleQuoteTick" =>
              \A quote \in QuoteTicks :
                  handleQuoteTick(quote) => KeepsPending(QuoteStaying(quote))]_vars
\* Two LIMIT orders of different sides are still pending, in the order of
\* their submission, after a match call in which neither qualified.
C26_Witness ==
    /\ lastOp \in {"handleTick", "handleQuoteTick"}
    /\ Len(orders) = 2
    /\ Len(pendingOrders) = 2
    /\ pendingOrders[1] = orders[1] /\ pendingOrders[2] = orders[2]
    /\ orders[1].side = "BUY" /\ orders[2].side = "SELL"
    /\ execCount = <<0, 0>>
    /\ cash = initialCash /\ position = 0

\* ref_i: the event's price for a trade series, the middle of bid and ask
\* for a quote series (the feeds used have an even bid + ask).
Ref(kind, event) ==
    IF kind = "quote" THEN (event.bid + event.ask) \div 2 ELSE event.price

\* C27: the value series of a run.  The i-th entry of a strategy's value
\* series is cash + position * ref_i with cash and position as they were
\* after the match step on event i, and after a completed run over a series
\* of N >= 1 events the value series has exactly N entries.
C27_ValueSeries ==
    \A k \in 1..Len(threads) :
        LET kind == strategies[k].kind
            series == SeriesOf(kind)
            ps == strategies[k].statistics.pnlSeries
            am == threads[k].afterMatch
        IN  /\ Len(ps) <= Len(am)
            /\ \A i \in 1..Len(ps) :
                   ps[i] = am[i].cash + am[i].position * Ref(kind, series[i])
            /\ (Terminated(threads[k]) /\ Len(series) >= 1) => Len(ps) = Len(series)
\* A quote-based strategy has completed a run over two quotes, holding one
\* unit bought on the first: its two values are 10000 - 100 + 100 and
\* 10000 - 100 + 101.
C27_Witness ==
    /\ Len(threads) >= 1
    /\ Terminated(threads[1])
    /\ strategies[1].kind = "quote"
    /\ Len(quoteData) = 2
    /\ strategies[1].orderManager.execCount = <<1>>
    /\ strategies[1].statistics.pnlSeries = <<10000, 10001>>

\* The order with this id is pending in the ledger.
PendingIn(led, id) == \E j \in 1..Len(led.pendingOrders) : led.pendingOrders[j].id = id
\* The event satisfies the fill condition of the order.
Fills(kind, order, event) ==
    IF kind = "quote" THEN quoteExecutes(order, event) ELSE tickExecutes(order, event)

\* C28: a LIMIT order submitted by the strategy while it handles event e is
\* pending in its ledger from the return of onTick to the match step for e,
\* and after that match step it has been executed, once, if e satisfies its
\* fill condition, and is still pending and not executed otherwise.
C28_LimitFillsOnSameEvent ==
    \A w \in 1..Len(threads) :
        threads[w].pc \in {"printLock", "printCout", "handleTick", "recordPnL"} =>
            LET kind == strategies[w].kind
                led == strategies[w].orderManager
                i == threads[w].i
                event == SeriesOf(kind)[i]
                os == threads[w].submitted[i]
                base == Len(led.execCount) - Len(os)
            IN  \A j \in 1..Len(os) :
                    os[j].type = "LIMIT" =>
                        IF threads[w].pc = "recordPnL" /\ Fills(kind, os[j], event)
                        THEN led.execCount[base + j] = 1 /\ ~PendingIn(led, base + j)
                        ELSE led.execCount[base + j] = 0 /\ PendingIn(led, base + j)
\* The match step for the first quote has just run in a worker whose strategy
\* sent a LIMIT BUY at the bid on that quote, and the order is executed.
C28_Witness ==
    /\ Len(threads) >= 1
    /\ threads[1].pc = "recordPnL"
    /\ threads[1].i = 1
    /\ strategies[1].kind = "quote"
    /\ Len(threads[1].submitted[1]) = 1
    /\ strategies[1].orderManager.execCount = <<1>>
    /\ strategies[1].orderManager.pendingOrders = <<>>
    /\ strategies[1].orderManager.position = 1

\* ------------------------------------------ claims about the ledger, cont.
\* The orders of a sequence that are executed in the step, by their change
\* of execCount.
OrdersFilled(os) == SelectSeq(os, LAMBDA o : execCount'[o.id] = execCount[o.id] + 1)
\* The sum over a sequence of orders of volume * own price, signed as cash
\* (a BUY pays), and of the volume, signed as position.
RECURSIVE OwnPriceCash(_)
OwnPriceCash(os) ==
    IF os = <<>> THEN 0
    ELSE (IF Head(os).side = "BUY" THEN 0 - Head(os).volume * Head(os).price
          ELSE Head(os).volume * Head(os).price) + OwnPriceCash(Tail(os))
RECURSIVE OwnVolume(_)
OwnVolume(os) ==
    IF os = <<>> THEN 0
    ELSE (IF Head(os).side = "BUY" THEN Head(os).volume ELSE 0 - Head(os).volume)
         + OwnVolume(Tail(os))

\* C34: a LIMIT order that fills in a match call, on a trade event or on a
\* quote event, changes cash by volume * its own limit price and position by
\* its volume: over a match call, cash and position change by the sums of
\* these amounts over the orders filled, whatever the event's price, bid and
\* ask are.
C34_FillsAtOwnLimitPrice ==
    [][lastOp' \in {"handleTick", "handleQuoteTick"} =>
           /\ cash' = cash + OwnPriceCash(OrdersFilled(pendingOrders))
           /\ position' = position + OwnVolume(OrdersFilled(pendingOrders))
           /\ \A j \in 1..Len(pendingOrders) :
                  execCount'[pendingOrders[j].id] \in
                      {execCount[pendingOrders[j].id], execCount[pendingOrders[j].id] + 1}]_vars
\* A LIMIT BUY of 2 at 110 and a LIMIT SELL of 1 at 100 have both filled in
\* one match call on a trade tick (whose price is then between 100 and 110,
\* and not the price of both): cash changed by -220 + 100.
C34_Witness ==
    /\ lastOp = "handleTick"
    /\ Len(orders) = 2
    /\ orders[1] = [side |-> "BUY", type |-> "LIMIT", volume |-> 2, price |-> 110, id |-> 1]
    /\ orders[2] = [side |-> "SELL", type |-> "LIMIT", volume |-> 1, price |-> 100, id |-> 2]
    /\ execCount = <<1, 1>>
    /\ cash = initialCash - 120
    /\ position = 1

\* C39: the pending collection contains only LIMIT orders, and a MARKET
\* order, executed once when it is submitted, is never executed again by a
\* match call.
C39_PendingOnlyLimit ==
    /\ \A j \in 1..Len(pendingOrders) : pendingOrders[j].type = "LIMIT"
    /\ \A i \in 1..Len(orders) : orders[i].type = "MARKET" => execCount[i] = 1
\* A match call has run after a MARKET BUY at 110 and a LIMIT BUY at 110 were
\* submitted; the LIMIT order has filled, the MARKET order was not executed
\* a second time.
C39_Witness ==
    /\ lastOp \in {"handleTick", "handleQuoteTick"}
    /\ Len(orders) = 2
    /\ orders[1].type = "MARKET" /\ orders[1].side = "BUY" /\ orders[1].price = 110
    /\ orders[2].type = "LIMIT" /\ orders[2].side = "BUY" /\ orders[2].price = 110
    /\ execCount = <<1, 1>>
    /\ pendingOrders = <<>>

\* -------------------------------------- claims about the aggregator, cont.
\* The sum of the volumes of the ticks of a sequence whose index is in S.
RECURSIVE VolumeOf(_, _)
VolumeOf(ticks, S) ==
    IF S = {} THEN 0
    ELSE LET j == CHOOSE k \in S : TRUE IN ticks[j].volume + VolumeOf(ticks, S \ {j})
\* The sum of the volumes of the bars passed so far to onBar, which are the
\* bars update has returned.
RECURSIVE ReturnedVolume(_)
ReturnedVolume(bs) ==
    IF bs = <<>> THEN 0 ELSE Head(bs).bar.volume + ReturnedVolume(Tail(bs))
\* The volume of the in-progress bar, 0 if there is none.
InProgressVolume ==
    IF barStrategy.currentBar = nullopt THEN 0 ELSE barStrategy.currentBar[1].volume

\* C35: volume conservation.  After any sequence of update calls the volumes
\* of the bars update has returned and of the in-progress bar add up to the
\* volumes of the ticks passed to update; every tick is counted in exactly
\* one bar, the volume of a bar being the sum of the volumes of its ticks.
C35_VolumeConservation ==
    LET n == Len(barStrategy.ticks)
        bars == barStrategy.onBar
    IN  /\ ReturnedVolume(bars) + InProgressVolume = VolumeOf(barStrategy.ticks, 1..n)
        /\ \A c \in 1..Len(bars) :
               bars[c].bar.volume = VolumeOf(barStrategy.ticks, bars[c].ticks)
        /\ InProgressVolume = VolumeOf(barStrategy.ticks, barStrategy.inBar)
        /\ \A j \in 1..n :
               IF j \in barStrategy.inBar
               THEN \A c \in 1..Len(bars) : j \notin bars[c].ticks
               ELSE \E c \in 1..Len(bars) :
                        /\ j \in bars[c].ticks
                        /\ \A d \in 1..Len(bars) : j \in bars[d].ticks => d = c
\* Three ticks were passed: update has returned one bar made of the first two
\* (volume 1 + 2), and the third is in the in-progress bar.
C35_Witness ==
    /\ Len(barStrategy.ticks) = 3
    /\ Len(barStrategy.onBar) = 1
    /\ barStrategy.onBar[1].ticks = {1, 2}
    /\ barStrategy.ticks[1].volume = 1 /\ barStrategy.ticks[2].volume = 2
    /\ barStrategy.onBar[1].bar.volume = 3
    /\ barStrategy.inBar = {3}

\* --------------------------- claims about the statistics collector, cont.
\* C31: every return is (v[i+1] - v[i]) / (|v[i]| + 1e-8) for the value v[i]
\* recorded immediately before v[i+1] (a return is kept as the operands
\* v[i+1] - v[i] and |v[i]| of that quotient), and the values and returns
\* already stored are never changed by a later call.
C31_ReturnFromPreviousValue ==
    /\ [](\A i \in 1..Len(returnsSeries) :
              /\ i + 1 <= Len(pnlSeries)
              /\ returnsSeries[i] = [num |-> pnlSeries[i + 1] - pnlSeries[i],
                                     absPrev |-> Abs(pnlSeries[i])])
    /\ [][IsPrefix(pnlSeries, pnlSeries') /\ IsPrefix(returnsSeries, returnsSeries')]_vars
\* Three values recorded, the second return taken from a previous value of 0.
C31_Witness ==
    /\ pnlSeries = <<-100, 0, 110>>
    /\ returnsSeries = <<[num |-> 100, absPrev |-> 100], [num |-> 110, absPrev |-> 0]>>

\* ------------------------------------- claims about the standard statistics
\* The value the last computeStats call returned under name, if any.
Computed(name) == statsEnv.values # nullopt /\ name \in DOMAIN statsEnv.values[1]
ValueOf(name) == statsEnv.values[1][name]

\* C32: whenever computeStats evaluates Sharpe, a series with exactly one
\* return included, its value is (mean(returns) - riskFreeRate) /
\* sqrt(variance(returns) + 1e-8) * sqrt(nPeriods) for the riskFreeRate given
\* to registerUserStats, which is 0 only if the mean equals riskFreeRate; in
\* particular it is not 0 for a single return different from riskFreeRate.
C32_SharpeFormula ==
    Computed("Sharpe") =>
        LET expected == [form |-> "sharpe",
                         excess |-> RatAdd(meanOf(returnsSeries),
                                           Rat(0 - statsEnv.riskFreeRate, 1)),
                         returns |-> returnsSeries,
                         nPeriods |-> statsEnv.nPeriods]
        IN  IF ValueOf("Sharpe").form = "zero"
            THEN expected.excess.n = 0
            ELSE ValueOf("Sharpe") = expected

\* The running maximum of the series up to and including its i-th value.
RECURSIVE PeakAt(_, _)
PeakAt(ps, i) == IF i = 1 THEN ps[1] ELSE Max(PeakAt(ps, i - 1), ps[i])
NonDecreasing(ps) == \A i \in 1..(Len(ps) - 1) : ps[i] <= ps[i + 1]
\* q <= (v - peak) / peak and q = (v - peak) / peak for the i-th value v of
\* the series and its running peak, q being a quotient; a term whose peak is
\* 0 has no value and is left out.
AtMostTerm(q, ps, i) ==
    LET peak == PeakAt(ps, i)
    IN  IF peak > 0 THEN q.n * peak <= (ps[i] - peak) * q.d
        ELSE IF peak < 0 THEN q.n * peak >= (ps[i] - peak) * q.d
        ELSE TRUE
IsTerm(q, ps, i) ==
    LET peak == PeakAt(ps, i)
    IN  peak # 0 /\ q.n * peak = (ps[i] - peak) * q.d
\* q is the minimum of the terms of the series with an index in S.
MinOfTerms(q, ps, S) ==
    /\ \A i \in S : AtMostTerm(q, ps, i)
    /\ \E i \in S : IsTerm(q, ps, i)
\* The indices at which the running peak exceeds 1e-8.
AbovePeakThreshold(ps) == {i \in 1..Len(ps) : PeakAt(ps, i) > Epsilon}

\* C33 as stated: MaxDrawdown is never positive; it is 0 when the value
\* series is non-decreasing or when the running peak never exceeds 1e-8, and
\* otherwise it is the minimum over the whole series of (v - peak) / peak.
C33_DrawdownMinOverSeries ==
    Computed("MaxDrawdown") =>
        /\ ValueOf("MaxDrawdown").n <= 0
        /\ IF NonDecreasing(pnlSeries) \/ AbovePeakThreshold(pnlSeries) = {}
           THEN ValueOf("MaxDrawdown").n = 0
           ELSE MinOfTerms(ValueOf("MaxDrawdown"), pnlSeries, 1..Len(pnlSeries))

\* C33 amended: as above, the minimum being taken over the values at which
\* the running peak exceeds 1e-8 only.
C33_DrawdownMinAbovePeakThreshold ==
    Computed("MaxDrawdown") =>
        /\ ValueOf("MaxDrawdown").n <= 0
        /\ ValueOf("MaxDrawdown").d > 0
        /\ IF NonDecreasing(pnlSeries) \/ AbovePeakThreshold(pnlSeries) = {}
           THEN ValueOf("MaxDrawdown").n = 0
           ELSE MinOfTerms(ValueOf("MaxDrawdown"), pnlSeries,
                           AbovePeakThreshold(pnlSeries))
\* The series 20e-9, 40e-9, 5e-9: the drawdown is (5 - 40) / 40.
C33_Witness ==
    /\ pnlSeries = <<20, 40, 5>>
    /\ Computed("MaxDrawdown")
    /\ RatEq(ValueOf("MaxDrawdown"), Rat(-7, 8))

\* C36: what Sharpe and Sortino read as riskFreeRate when computeStats
\* invokes them is read from an object that still exists, and is the value
\* that was passed to registerUserStats.
C36_RiskFreeRateAsPassed ==
    statsEnv.values # nullopt =>
        \A name \in DOMAIN statsEnv.reads :
            /\ statsEnv.paramAlive
            /\ statsEnv.reads[name] = statsEnv.riskFreeRate

\* The closures of registerUserStats that the last computeStats call invoked.
InvokedClosures == IF statsEnv.values = nullopt THEN {} ELSE DOMAIN statsEnv.values[1]

\* C40: a closure is invoked by computeStats only, hence with at least 2
\* values in pnlSeries and at least 1 return in returnsSeries; no invocation
\* reads front() or back() of an empty series or divides by a zero length.
C40_InvokedWithTwoValues ==
    /\ statsEnv.hazards = {}
    /\ InvokedClosures # {} =>
           /\ statsEnv.sizes # nullopt
           /\ statsEnv.sizes[1].values >= 2
           /\ statsEnv.sizes[1].returns >= 1
           /\ statsEnv.sizes[1].values = Len(pnlSeries)
           /\ statsEnv.sizes[1].returns = Len(returnsSeries)
C40_Witness ==
    /\ InvokedClosures = {"MeanReturn", "TotalReturn", "MaxDrawdown",
                          "AnnualizedVolatility", "Sharpe", "Sortino"}
    /\ statsEnv.sizes = Some([values |-> 2, returns |-> 1])
    /\ statsEnv.hazards = {}

\* ------------------------------------------- claims about the engine, cont.
\* The worker w has printed the "Final PnL" of its context.
HasReported(w) == threads[w].reported # nullopt

\* C38: the "Final PnL" a worker prints is the valuation of its ledger at
\* price 0, that is the cash alone, whatever the position; it is the last
\* value of pnlSeries only when the final position is 0.
C38_FinalPnLIsCash ==
    \A w \in 1..Len(threads) :
        HasReported(w) =>
            LET led == strategies[ctx(w)].orderManager
                series == strategies[ctx(w)].statistics.pnlSeries
            IN  /\ threads[w].reported[1] = led.cash
                /\ (series # <<>> /\ threads[w].reported[1] = series[Len(series)])
                       => led.position = 0
\* A worker that ends with an open position: the value it prints is the
\* cash, which is not the last value it recorded.
C38_Witness ==
    \E w \in 1..Len(threads) :
        LET led == strategies[ctx(w)].orderManager
            series == strategies[ctx(w)].statistics.pnlSeries
        IN  /\ HasReported(w)
            /\ led.position > 0
            /\ series # <<>>
            /\ threads[w].reported[1] = led.cash
            /\ threads[w].reported[1] # series[Len(series)]

\* The number of events of the series the worker of strategies[k] runs over.
EventsOf(k) == Len(SeriesOf(strategies[k].kind))
\* What runAll would have to reset for a run to start afresh: the ledger and
\* the series of the context strategies[k].
RunState(ss, k) ==
    [orderManager |-> ss[k].orderManager,
     initialPnL |-> ss[k].statistics.initialPnL,
     pnlSeries |-> ss[k].statistics.pnlSeries,
     returnsSeries |-> ss[k].statistics.returnsSeries]
\* No step of the main thread (the calls of runAll, its setup loop, its join
\* loop) changes the ledger or the series of a context.
MainKeepsRunState ==
    mainPc' # mainPc =>
        \A k \in 1..Len(strategies) : RunState(strategies', k) = RunState(strategies, k)
\* Each worker is created on the ledger and the series its context holds at
\* that time, and every run adds one value per event: run r of runAll starts
\* with (r - 1) * N values and ends with r * N values (in the join loop and
\* after it, a worker that has returned is one of the current run).
RunsAccumulate ==
    \A k \in 1..Len(threads) :
        LET sc == strategies[k].statistics
            n == EventsOf(k)
        IN  /\ threads[k].pc = "onStart" =>
                   /\ threads[k].startedFrom = Some(strategies[k].orderManager)
                   /\ Len(sc.pnlSeries) = (mainPc.run - 1) * n
            /\ (mainPc.pc \in {"join", "returned"}
                    /\ threads[k].pc \in {"finished", "joined"}) =>
                   /\ Len(sc.pnlSeries) = mainPc.run * n
                   /\ n > 0 => Len(sc.returnsSeries) = mainPc.run * n - 1

\* C37: runAll does not reset the state of a strategy.  A second call of
\* runAll starts each worker from the cash, position, pending orders, value
\* series and return series the first call left, so that after two runs over
\* N events the value series has 2N entries.
C37_SecondRunContinues == []RunsAccumulate /\ [][MainKeepsRunState]_vars
\* A LIMIT order the first run left pending, filled in the second run, whose
\* end finds twice MaxSeries values recorded.
C37_Witness ==
    /\ mainPc.run = 2
    /\ mainPc.pc = "returned"
    /\ Len(threads) = 1
    /\ threads[1].startedFrom # nullopt
    /\ threads[1].startedFrom[1].pendingOrders # <<>>
    /\ strategies[1].orderManager.pendingOrders = <<>>
    /\ strategies[1].orderManager.execCount[threads[1].startedFrom[1].pendingOrders[1].id] = 1
    /\ Len(strategies[1].statistics.pnlSeries) = 2 * MaxSeries

=============================================================================
